---- MODULE Spec2Model ----
(***************************************************************************)
(* pyIOT: a Thing reconciling the property caches of its Components with   *)
(* an external shadow, and the Components' read / write loops that         *)
(* translate between device lines and property values.                     *)
(*                                                                         *)
(* Text (device lines, commands) is a sequence of one-character strings,   *)
(* so that pattern matching and command formatting are computed.           *)
(* Property values are strings; Python's True / False are "True"/"False".  *)
(***************************************************************************)
EXTENDS Integers, Sequences, FiniteSets, TLC

(* ------------------------------ bounds --------------------------------- *)
\* inputs of one run: lines sent by the devices, deltas of the shadow service,
\* mailbox time-outs, exit requests and stream faults
MaxInputs == 3

(* --------------------------- character classes ------------------------- *)
Digit01 == {"0", "1"}
Digit == {"0", "1", "2", "3", "4", "5", "6", "7", "8", "9"}
Sign == {"+", "-"}
AlNum == Digit \cup
         {"a","b","c","d","e","f","g","h","i","j","k","l","m",
          "n","o","p","q","r","s","t","u","v","w","x","y","z"} \cup
         {"A","B","C","D","E","F","G","H","I","J","K","L","M",
          "N","O","P","Q","R","S","T","U","V","W","X","Y","Z"}

(* One element of a compiled pattern: n characters of the set s, belonging *)
(* to capture group g (0: outside every group).                            *)
El(s, n, g) == [s |-> s, n |-> n, g |-> g]
Lit(ch) == El({ch}, 1, 0)

NoMatch == [ok |-> FALSE, groups |-> <<>>]

(* A variant matcher that accepts as soon as the pattern is used up,      *)
(* wherever the line ends.                                                 *)
RECURSIVE MatchElemsPrefix(_, _, _, _, _)
MatchElemsPrefix(elems, k, line, i, groups) ==
    IF k > Len(elems)
    THEN [ok |-> TRUE, groups |-> groups]
    ELSE LET e == elems[k] IN
         IF i + e.n - 1 <= Len(line) /\ \A j \in i..(i + e.n - 1) : line[j] \in e.s
         THEN MatchElemsPrefix(elems, k + 1, line, i + e.n,
                               IF e.g = 0 THEN groups
                               ELSE [groups EXCEPT ![e.g] = @ \o SubSeq(line, i, i + e.n - 1)])
         ELSE NoMatch

(* re.match of a pattern "^ elems $" against line, from position i on:     *)
(* the elements in order, then '$' (the end of the text, or just before a  *)
(* final newline).                                                         *)
RECURSIVE MatchElems(_, _, _, _, _)
MatchElems(elems, k, line, i, groups) ==
    IF k > Len(elems)
    THEN IF i = Len(line) + 1 \/ (i = Len(line) /\ line[i] = "\n")
         THEN [ok |-> TRUE, groups |-> groups]
         ELSE NoMatch
    ELSE LET e == elems[k] IN
         IF i + e.n - 1 <= Len(line) /\ \A j \in i..(i + e.n - 1) : line[j] \in e.s
         THEN MatchElems(elems, k + 1, line, i + e.n,
                         IF e.g = 0 THEN groups
                         ELSE [groups EXCEPT ![e.g] = @ \o SubSeq(line, i, i + e.n - 1)])
         ELSE NoMatch

(* A pattern is a sequence of alternatives (the expansions of its bounded  *)
(* repetitions and optional parts), tried in order.                        *)
RECURSIVE MatchAlts(_, _, _, _)
MatchAlts(alts, a, line, ngroups) ==
    IF a > Len(alts) THEN NoMatch
    ELSE LET m == MatchElems(alts[a], 1, line, 1, [g \in 1..ngroups |-> <<>>]) IN
         IF m.ok THEN m ELSE MatchAlts(alts, a + 1, line, ngroups)

(* ------------------- example.py: the translation rules ----------------- *)
\* '^P1P([0-1])$'
PatPower == << <<Lit("P"), Lit("1"), Lit("P"), El(Digit01, 1, 1)>> >>
\* '^P1S([0-9])$'
PatInput == << <<Lit("P"), Lit("1"), Lit("S"), El(Digit, 1, 1)>> >>
\* '^P1VM([+-][0-9]{1,2}(?:[\.][0-9]{1,2})?)$'
PatVolume ==
    LET head == <<Lit("P"), Lit("1"), Lit("V"), Lit("M"), El(Sign, 1, 1)>> IN
    << head \o <<El(Digit, 2, 1), El({"."}, 1, 1), El(Digit, 2, 1)>>,
       head \o <<El(Digit, 2, 1), El({"."}, 1, 1), El(Digit, 1, 1)>>,
       head \o <<El(Digit, 2, 1)>>,
       head \o <<El(Digit, 1, 1), El({"."}, 1, 1), El(Digit, 2, 1)>>,
       head \o <<El(Digit, 1, 1), El({"."}, 1, 1), El(Digit, 1, 1)>>,
       head \o <<El(Digit, 1, 1)>> >>
\* '^P1M([0-1])$'
PatMuted == << <<Lit("P"), Lit("1"), Lit("M"), El(Digit01, 1, 1)>> >>
\* '^P1S([0-9])V([+-][0-9]{2}[\.][0-9])M([0-1])D[0-9]E[0-9]$'
PatCombined ==
    << <<Lit("P"), Lit("1"), Lit("S"), El(Digit, 1, 1),
         Lit("V"), El(Sign, 1, 2), El(Digit, 2, 2), El({"."}, 1, 2), El(Digit, 1, 2),
         Lit("M"), El(Digit01, 1, 3),
         Lit("D"), El(Digit, 1, 0), Lit("E"), El(Digit, 1, 0)>> >>
\* '^PWR=([0-9]{2})$'
PatProjPower == << <<Lit("P"), Lit("W"), Lit("R"), Lit("="), El(Digit, 2, 1)>> >>
\* '^SOURCE=([a-zA-Z0-9]{2})$'
PatProjInput ==
    << <<Lit("S"), Lit("O"), Lit("U"), Lit("R"), Lit("C"), Lit("E"), Lit("="),
         El(AlNum, 2, 1)>> >>

Rule(props, pat, method) == [props |-> props, pat |-> pat, method |-> method]

(* The componentToProperty rules a class declares, in the order of its     *)
(* class dictionary.                                                       *)
c2pRules(cls) ==
    CASE cls = "preampComponent" ->
           << Rule(<<"powerState">>, PatPower, "avmToPowerState"),
              Rule(<<"input">>, PatInput, "avmToInput"),
              Rule(<<"volume">>, PatVolume, "avmToVolume"),
              Rule(<<"muted">>, PatMuted, "avmToMuted"),
              Rule(<<"input", "volume", "muted">>, PatCombined, "avmcombinedResponse") >>
      [] cls = "projectorComponent" ->
           << Rule(<<"projPowerState">>, PatProjPower, "toProjPowerState"),
              Rule(<<"projInput">>, PatProjInput, "toProjInput") >>
      \* a class derived from preampComponent: its own rule for the power
      \* message, and a rule for a property that is only read
      [] cls = "derivedPreamp" ->
           << Rule(<<"powerState">>, PatPower, "derivedToPowerState"),
              Rule(<<"display">>, PatMuted, "derivedToDisplay") >>
      [] OTHER -> << >>

Cmd(pre, post, method) == [pre |-> pre, post |-> post, method |-> method]

(* The propertyToComponent rules a class declares: property -> (template,  *)
(* handler); the template is the text before and after its "{0}".          *)
p2cRules(cls) ==
    CASE cls = "preampComponent" ->
           [p \in {"powerState", "input", "volume", "muted"} |->
              CASE p = "powerState" -> Cmd(<<"P", "1", "P">>, << >>, "powerStateToAVM")
                [] p = "input" -> Cmd(<<"P", "1", "S">>, << >>, "inputToAVM")
                [] p = "volume" -> Cmd(<<"P", "1", "V", "M">>, << >>, "volumeToAVM")
                [] p = "muted" -> Cmd(<<"P", "1", "M">>, << >>, "muteToAVM")]
      [] cls = "projectorComponent" ->
           [p \in {"projPowerState", "projInput"} |->
              CASE p = "projPowerState" ->
                     Cmd(<<"P", "W", "R", " ">>, <<"\r">>, "projPowerStateToProj")
                [] p = "projInput" ->
                     Cmd(<<"S", "O", "U", "R", "C", "E", " ">>, <<"\r">>, "projInputToProj")]
      \* the derived class: its own command for powerState, and a command
      \* for a property that is only written
      [] cls = "derivedPreamp" ->
           [p \in {"powerState", "reset"} |->
              CASE p = "powerState" -> Cmd(<<"Z", "2", "P">>, << >>, "derivedPowerStateToAVM")
                [] p = "reset" -> Cmd(<<"P", "1", "R">>, << >>, "derivedResetToAVM")]
      [] OTHER -> << >>

(* A variant order in which the ancestors come before the class itself.   *)
mroAncestorsFirst(cls) ==
    IF cls = "derivedPreamp" THEN <<"preampComponent", cls, "Component">>
    ELSE <<cls, "Component">>

(* The method resolution order of a class: itself, its ancestors, then     *)
(* Component.                                                              *)
mro(cls) ==
    IF cls = "derivedPreamp" THEN <<cls, "preampComponent", "Component">>
    ELSE <<cls, "Component">>

Ok(v) == [exc |-> "none", val |-> v]
Raise(e) == [exc |-> e, val |-> "UNKNOWN"]

(* dict.get(key) followed by "if val: return val; raise ValueError".       *)
Lookup(table, key) ==
    IF key \in DOMAIN table THEN Ok(table[key]) ELSE Raise("ValueError")

(* A variant of avmToPowerState with the two values exchanged.             *)
avmToPowerStateInverted(text) ==
    Lookup([t \in {<<"1">>, <<"0">>} |-> IF t = <<"1">> THEN "OFF" ELSE "ON"], text)

avmToPowerState(text) == Lookup([t \in {<<"1">>, <<"0">>} |-> IF t = <<"1">> THEN "ON" ELSE "OFF"], text)

avmToInput(text) ==
    Lookup([t \in {<<"0">>, <<"3">>, <<"5">>, <<"6">>, <<"7">>, <<"8">>, <<"9">>} |->
              CASE t = <<"0">> -> "CD" [] t = <<"3">> -> "TAPE" [] t = <<"5">> -> "DVD"
                [] t = <<"6">> -> "TV" [] t = <<"7">> -> "SAT" [] t = <<"8">> -> "VCR"
                [] t = <<"9">> -> "AUX"], text)

\* float(value), then self._db(...): _db is a staticmethod that reads "self",
\* so the call raises NameError inside the bare try/except -> ValueError.
avmToVolume(text) == Raise("ValueError")

avmToMuted(text) == Lookup([t \in {<<"1">>, <<"0">>} |-> IF t = <<"1">> THEN "True" ELSE "False"], text)

toProjPowerState(text) ==
    Lookup([t \in {<<"0","0">>, <<"0","1">>, <<"0","2">>, <<"0","3">>, <<"0","4">>, <<"0","5">>} |->
              CASE t = <<"0","0">> -> "OFF" [] t = <<"0","1">> -> "ON"
                [] t = <<"0","2">> -> "WARMING" [] t = <<"0","3">> -> "COOLING"
                [] t = <<"0","4">> -> "STANDBY" [] t = <<"0","5">> -> "ABNORMAL"], text)

toProjInput(text) ==
    Lookup([t \in {<<"3","0">>, <<"A","0">>, <<"4","1">>, <<"4","2">>} |->
              CASE t = <<"3","0">> -> "HDMI1" [] t = <<"A","0">> -> "HDMI2"
                [] t = <<"4","1">> -> "VIDEO" [] t = <<"4","2">> -> "S-VIDEO"], text)

(* method(self, property, text) of a componentToProperty handler.          *)
DecodeHandler(method, property, text) ==
    CASE method = "avmToPowerState" -> avmToPowerState(text)
      [] method = "avmToInput" -> avmToInput(text)
      [] method = "avmToVolume" -> avmToVolume(text)
      [] method = "avmToMuted" -> avmToMuted(text)
      [] method = "avmcombinedResponse" ->
           CASE property = "input" -> avmToInput(text)
             [] property = "volume" -> avmToVolume(text)
             [] property = "muted" -> avmToMuted(text)
             [] OTHER -> Raise("TypeError")
      [] method = "toProjPowerState" -> toProjPowerState(text)
      [] method = "toProjInput" -> toProjInput(text)
      [] OTHER -> Raise("TypeError")

(* Integer property values (volume) as requested by the shadow.            *)
IntValues == {"50"}

(* method(self, value) of a propertyToComponent handler: the text that     *)
(* replaces "{0}", or the exception raised.                                *)
EncodeHandler(method, value) ==
    LET arg(t) == [exc |-> "none", val |-> t] IN
    CASE method = "powerStateToAVM" ->
           IF value = "ON" THEN arg(<<"1">>) ELSE IF value = "OFF" THEN arg(<<"0">>)
           ELSE Raise("ValueError")
      [] method = "inputToAVM" ->
           CASE value = "CD" -> arg(<<"0">>) [] value = "TAPE" -> arg(<<"3">>)
             [] value = "DVD" -> arg(<<"5">>) [] value = "TV" -> arg(<<"6">>)
             [] value = "SAT" -> arg(<<"7">>) [] value = "VCR" -> arg(<<"8">>)
             [] value = "AUX" -> arg(<<"9">>) [] OTHER -> Raise("ValueError")
      [] method = "volumeToAVM" ->
           \* "return _volume(value)": _volume is no global name -> NameError
           IF value \in IntValues THEN Raise("NameError") ELSE Raise("ValueError")
      [] method = "muteToAVM" ->
           IF value = "True" THEN arg(<<"1">>) ELSE IF value = "False" THEN arg(<<"0">>)
           ELSE Raise("ValueError")
      [] method = "projPowerStateToProj" ->
           IF value = "ON" THEN arg(<<"O", "N">>) ELSE IF value = "OFF" THEN arg(<<"O", "F", "F">>)
           ELSE Raise("ValueError")
      [] method = "projInputToProj" ->
           CASE value = "HDMI1" -> arg(<<"3", "0">>) [] value = "HDMI2" -> arg(<<"A", "0">>)
             [] value = "VIDEO" -> arg(<<"4", "1">>) [] value = "S-VIDEO" -> arg(<<"4", "2">>)
             [] OTHER -> Raise("ValueError")
      [] OTHER -> Raise("TypeError")

(* cmd.format(arg)                                                         *)
Format(cmd, arg) == cmd.pre \o arg \o cmd.post


(* ----------------------------- components ------------------------------ *)
Comps == {"preamp", "proj"}

(* The class of each component object.                                     *)
VARIABLE classOf
ClassOf(c) == classOf[c]

(* The component classes of example.py, and the objects made of them: a    *)
(* preamp and a projector.                                                 *)
ComponentClasses == {"preampComponent", "projectorComponent"}
ExampleClasses ==
    [c \in Comps |-> IF c = "preamp" THEN "preampComponent" ELSE "projectorComponent"]

(* The components handed to the Thing, in list order.                      *)
ComponentList == <<"preamp", "proj">>

(* The lines a device sends: those of its kind.                            *)
ClassLines(cls) ==
    IF cls = "preampComponent"
    THEN {<<"P", "1", "P", "1">>, <<"P", "1", "P", "0">>}
    ELSE {<<"P", "W", "R", "=", "0", "1">>, <<"P", "W", "R", "=", "0", "2">>}
DeviceLines(c) == ClassLines(ClassOf(c))

Range(s) == {s[i] : i \in DOMAIN s}

(* A variant that keeps only the properties that have rules in both       *)
(* directions.                                                             *)
PropsOfClassBothWays(cls) ==
    LET classes == Range(mro(cls))
        c2p == UNION {UNION {Range(c2pRules(k)[i].props) : i \in DOMAIN c2pRules(k)} : k \in classes}
        p2c == UNION {DOMAIN p2cRules(k) : k \in classes}
    IN  p2c \cap c2p

(* Component._initializeProperties: every property named by a rule of the  *)
(* class or of an ancestor, with value 'UNKNOWN'.                          *)
PropsOfClass(cls) ==
    LET classes == Range(mro(cls))
        c2p == UNION {UNION {Range(c2pRules(k)[i].props) : i \in DOMAIN c2pRules(k)} : k \in classes}
        p2c == UNION {DOMAIN p2cRules(k) : k \in classes}
    IN  p2c \cup c2p

initializeProperties(cls) == [p \in PropsOfClass(cls) |-> "UNKNOWN"]

(* Component._componentToProperty: the first rule, along the mro and then  *)
(* in declaration order, whose pattern matches the text.                   *)
RECURSIVE FirstMatch(_, _, _, _)
FirstMatch(classes, k, i, text) ==
    IF k > Len(classes) THEN [found |-> FALSE]
    ELSE LET rules == c2pRules(classes[k]) IN
         IF i > Len(rules) THEN FirstMatch(classes, k + 1, 1, text)
         ELSE LET m == MatchAlts(rules[i].pat, 1, text, Len(rules[i].props)) IN
              IF m.ok
              THEN [found |-> TRUE, props |-> rules[i].props,
                    method |-> rules[i].method, groups |-> m.groups]
              ELSE FirstMatch(classes, k, i + 1, text)

(* _componentToProperty of the lines the devices send, matched once and    *)
(* for all: the result depends on the class and the text alone.            *)
lineToProperty ==
    [cls \in ComponentClasses |->
        [line \in ClassLines(cls) |-> FirstMatch(mro(cls), 1, 1, line)]]

componentToProperty(cls, text) ==
    IF cls \in ComponentClasses /\ text \in ClassLines(cls)
    THEN lineToProperty[cls][text]
    ELSE FirstMatch(mro(cls), 1, 1, text)

(* A variant lookup that prefers the rule of the most distant class.       *)
RECURSIVE LastRule(_, _, _)
LastRule(classes, k, property) ==
    IF k > Len(classes) THEN [found |-> FALSE]
    ELSE LET r == LastRule(classes, k + 1, property) IN
         IF r.found THEN r
         ELSE IF property \in DOMAIN p2cRules(classes[k])
              THEN [found |-> TRUE, cmd |-> p2cRules(classes[k])[property]]
              ELSE [found |-> FALSE]

(* Component._propertyToComponent: the rule of the first class along the   *)
(* mro that declares one for the property.                                 *)
RECURSIVE FirstRule(_, _, _)
FirstRule(classes, k, property) ==
    IF k > Len(classes) THEN [found |-> FALSE]
    ELSE IF property \in DOMAIN p2cRules(classes[k])
         THEN [found |-> TRUE, cmd |-> p2cRules(classes[k])[property]]
         ELSE FirstRule(classes, k + 1, property)

propertyToComponent(cls, property) == FirstRule(mro(cls), 1, property)

(* ------------------------------ messages ------------------------------- *)
UpdateMsg(src, p, v) == [action |-> "UPDATE", source |-> src, property |-> p, value |-> v]
ExitMsg == [action |-> "EXIT", source |-> "", property |-> "", value |-> ""]
NoMsg == [action |-> "", source |-> "", property |-> "", value |-> ""]

(* The exceptions the loops catch around a handler call.                   *)
Caught == {"ValueError", "AssertionError", "TypeError"}

(* A variant of _updateThing that sends the event but leaves the cache.    *)
updateThingNoCache(name, st, p, v) ==
    [st EXCEPT !.events = Append(@, UpdateMsg(name, p, v))]

(* Component._updateThing, once per changed property of a line: the event  *)
(* put on the Thing's queue and the cache update.                          *)
updateThing(name, st, p, v) ==
    [st EXCEPT !.events = Append(@, UpdateMsg(name, p, v)), !.cache[p] = v]

(* A variant of the loop body without the comparison with the cache.      *)
processGroupAlways(name, st, p, x) ==
    IF x.exc = "none"
    THEN [st EXCEPT !.events = Append(@, UpdateMsg(name, p, x.val)), !.cache[p] = x.val]
    ELSE IF x.exc \in Caught THEN st ELSE [st EXCEPT !.exc = x.exc]

(* A variant of the loop body in which a handler's exception ends the     *)
(* handling of the line.                                                   *)
processGroupStopAtFailure(name, st, p, x) ==
    IF x.exc = "none"
    THEN IF st.cache[p] # x.val THEN updateThing(name, st, p, x.val) ELSE st
    ELSE [st EXCEPT !.exc = x.exc]

(* The body of _processComponentResponse's loop for one group, x being    *)
(* what the handler returned or raised: a value that differs from the      *)
(* cached one is sent to the Thing; a caught exception changes nothing.    *)
processGroup(name, st, p, x) ==
    IF x.exc = "none"
    THEN IF st.cache[p] # x.val THEN updateThing(name, st, p, x.val) ELSE st
    ELSE IF x.exc \in Caught THEN st ELSE [st EXCEPT !.exc = x.exc]

(* Component._processComponentResponse: the handler once per group, in     *)
(* order.                                                                  *)
RECURSIVE ProcessGroups(_, _, _, _)
ProcessGroups(name, ret, i, st) ==
    IF i > Len(ret.props) \/ st.exc # "none" THEN st
    ELSE LET p == ret.props[i] IN
         ProcessGroups(name, ret, i + 1,
             processGroup(name, st, p, DecodeHandler(ret.method, p, ret.groups[i])))

processComponentResponse(name, cls, cache, val) ==
    LET ret == componentToProperty(cls, val)
        st0 == [cache |-> cache, events |-> << >>, exc |-> "none"]
    IN  IF ret.found THEN ProcessGroups(name, ret, 1, st0) ELSE st0

(* A variant of queryStatus that asks for the power state whatever the     *)
(* cache holds.                                                            *)
queryStatusPowerOnly(cls, cache) ==
    IF cls = "preampComponent"
    THEN << <<"P", "1", "P", "?", "\n">> >>
    ELSE << <<"P", "W", "R", "?", "\r">> >>

(* ready(): the base class is always ready; the projector is busy while    *)
(* it warms up or cools down.                                              *)
ready(cls, cache) ==
    IF cls = "projectorComponent"
    THEN cache["projPowerState"] \in {"ON", "OFF", "UNKNOWN"}
    ELSE TRUE

(* queryStatus(), as the list the write loop makes of its result.          *)
queryStatus(cls, cache) ==
    IF cls = "preampComponent"
    THEN IF cache["powerState"] = "ON"
         THEN << <<"P", "1", "?", "\n">> >>
         ELSE << <<"P", "1", "P", "?", "\n">> >>
    ELSE IF cache["projPowerState"] = "ON"
         THEN << <<"P", "W", "R", "?", "\r">>, <<"S", "O", "U", "R", "C", "E", "?", "\r">> >>
         ELSE << <<"P", "W", "R", "?", "\r">> >>


(* ------------------------------ the Thing ------------------------------ *)
(* A variant registration in which the first component to declare a       *)
(* property keeps it.                                                      *)
RECURSIVE registerComponentsFirstWins(_, _, _, _)
registerComponentsFirstWins(list, i, caches, reg) ==
    IF i > Len(list) THEN reg
    ELSE LET c == list[i]
             ps == DOMAIN caches[c]
             all == DOMAIN reg.shadow \cup ps
         IN  registerComponentsFirstWins(list, i + 1, caches,
                 [shadow |-> [p \in all |-> IF p \in DOMAIN reg.shadow THEN reg.shadow[p]
                                            ELSE caches[c][p]],
                  handlers |-> [p \in all |-> IF p \in DOMAIN reg.handlers
                                              THEN reg.handlers[p] ELSE c]])

(* Thing._registerComponent over the component list: the shadow's initial  *)
(* values and the owner of each property (a later component overwrites).   *)
RECURSIVE registerComponents(_, _, _, _)
registerComponents(list, i, caches, reg) ==
    IF i > Len(list) THEN reg
    ELSE LET c == list[i]
             ps == DOMAIN caches[c]
             all == DOMAIN reg.shadow \cup ps
         IN  registerComponents(list, i + 1, caches,
                 [shadow |-> [p \in all |-> IF p \in ps THEN caches[c][p] ELSE reg.shadow[p]],
                  handlers |-> [p \in all |-> IF p \in ps THEN c ELSE reg.handlers[p]]])

NoRegistration == [shadow |-> << >>, handlers |-> << >>]

Get(d, k) == IF k \in DOMAIN d THEN d[k] ELSE "None"

(* Thing.onChange and its overrides: the (property, value) pairs returned, *)
(* or the exception raised.                                                *)
Hooks == {"Thing", "docExample", "TVThing"}

onChange(hook, updatedProperties) ==
    LET power == Get(updatedProperties, "powerState")
        input == Get(updatedProperties, "input")
    IN  CASE hook = "docExample" ->
               [exc |-> "none",
                rv |-> IF power = "OFF"
                       THEN << <<"powerState", "ON">>, <<"input", "CD">> >> ELSE << >>]
          [] hook = "TVThing" ->
               LET rv1 == IF power = "OFF"
                          THEN << <<"powerState", "ON">>, <<"input", "AUX">>,
                                  <<"powerProjector", "OFF">> >>
                          ELSE << >>
                   rv2 == IF power = "ON" /\ input \notin {"TV", "DVD"}
                          THEN Append(rv1, <<"powerProjector", "OFF">>) ELSE rv1
               IN  IF power = "ON" /\ input \in {"TV", "DVD"}
                   \* rv.append('inputProjector', 'HDMI1'): append takes one argument
                   THEN [exc |-> "TypeError", rv |-> << >>]
                   ELSE [exc |-> "none", rv |-> rv2]
          [] OTHER -> [exc |-> "none", rv |-> << >>]

(* A variant of updateComponent that loses the message.                   *)
updateComponentLost(queues, c, p, v) == queues

(* A variant of updateComponent that puts the message at the head of the  *)
(* mailbox.                                                                *)
updateComponentFirst(queues, c, p, v) ==
    [queues EXCEPT ![c] = <<UpdateMsg("__thing__", p, v)>> \o @]

(* Component.updateComponent: an UPDATE from the Thing is put on the       *)
(* component's mailbox.                                                    *)
updateComponent(queues, c, p, v) ==
    [queues EXCEPT ![c] = Append(@, UpdateMsg("__thing__", p, v))]

(* A variant that takes every message for a component's report.           *)
fromThingNever(m) == FALSE

(* Thing._main: "if message['source'] == '__thing__'".                     *)
fromThing(m) == m.source = "__thing__"

(* A variant that hands onChange the last report only.                    *)
hookArgumentOnlyLast(upd, m) == (m.property :> m.value)

(* Thing._main: the argument of self.onChange(...) after message m was     *)
(* accumulated into upd.                                                   *)
hookArgument(upd, m) == upd

(* A variant that forwards none of the pairs.                             *)
forwardChangesNone(rv, i, handlers, st) == st

(* "for k, v in localPropertyChanges: self._propertyHandlers[k]            *)
(* .updateComponent(k, v)": each pair goes to its owner's mailbox, until   *)
(* one names a property without a handler (KeyError).                      *)
RECURSIVE forwardChanges(_, _, _, _)
forwardChanges(rv, i, handlers, st) ==
    IF i > Len(rv) \/ st.exc # "none" THEN st
    ELSE LET k == rv[i][1]
             v == rv[i][2]
         IN  forwardChanges(rv, i + 1, handlers,
                 IF k \in DOMAIN handlers
                 THEN [st EXCEPT !.queues = updateComponent(@, handlers[k], k, v)]
                 ELSE [st EXCEPT !.exc = "KeyError"])

(* The end of a cycle: is an update needed, and the payload sent.          *)
changedProperties(updated, shadow) == {p \in DOMAIN updated : shadow[p] # updated[p]}

(* A variant that publishes whenever something was accumulated.           *)
updateNeededNonEmpty(updated, shadow) == updated # << >>

updateNeeded(updated, shadow) == changedProperties(updated, shadow) # {}

(* A variant of the payload with only the properties that differ.         *)
payloadOfChanged(updated, shadow) ==
    [p \in changedProperties(updated, shadow) |-> updated[p]]

payloadOf(updated, shadow) == updated

(* The shadow after the end of a cycle.                                    *)
shadowAfter(updated, shadow) == shadow

(* ------------------------------- state --------------------------------- *)
VARIABLES
    synchronous,        \* c -> the component's "synchronous" argument
    hook,               \* which onChange the Thing runs
    requests,           \* the (property, value) pairs the shadow service asks for
    call,               \* the last direct call of a class method and its result
    closes,             \* c -> how many times the stream's close() has been called
    alive,              \* c -> the component object has not been finalized
    properties,         \* c -> the component's property cache
    componentQueue,     \* c -> the component's mailbox
    exitFlag,           \* c -> Component._exit
    readlock,           \* c -> holder of Component._readlock, or "free"
    wpc,                \* c -> where the write loop is
    wq,                 \* c -> status queries still to write in this iteration
    rpc,                \* c -> where the read loop is
    rx,                 \* c -> lines the device has sent and nobody has read
    tx,                 \* c -> what was written to the stream, in order
    fault,              \* c -> the stream operation that fails ("none": neither)
    eventQueue,         \* the Thing's event queue
    localShadow,        \* Thing._localShadow
    propertyHandlers,   \* Thing._propertyHandlers
    tpc,                \* where Thing._main is
    messages,           \* the rest of the batch being processed
    updatedProperties,  \* the cycle's accumulated component reports
    published,          \* the payloads handed to shadowUpdate, in order
    lastReady,          \* c -> what ready() returned at the last gate
    lastMsg,            \* c -> the last message the write loop took (history)
    lastDecode,         \* c -> the last text decoded, the events it pushed, and whether
                        \* exit() had been called by then (history)
    cycle,              \* the Thing's current cycle: its batch, what it put on the
                        \* mailboxes, its onChange calls, the publishes before it (history)
    inputs              \* the number of inputs so far

vars == <<classOf, synchronous, hook, requests, call, closes, alive, properties, componentQueue,
          exitFlag, readlock, wpc, wq,
          rpc, rx, tx, fault, eventQueue, localShadow, propertyHandlers, tpc, messages,
          updatedProperties, published, lastReady, lastMsg, lastDecode, cycle, inputs>>

compVars == <<properties, componentQueue, exitFlag, readlock, wpc, wq, rpc, rx, tx, lastReady,
              lastMsg, lastDecode>>
thingVars == <<localShadow, propertyHandlers, tpc, messages, updatedProperties, published,
               cycle>>
lifeVars == <<closes, alive>>
setupVars == <<classOf, synchronous, hook, requests>>
configVars == <<setupVars, call, lifeVars>>

(* ------------------------------- inputs -------------------------------- *)
(* The (property, value) pairs the shadow service asks for.                *)
DeltaRequests ==
    {<<"projPowerState", "ON">>, <<"projPowerState", "DIM">>, <<"brightness", "ON">>,
     <<"volume", "50">>, <<"powerState", "ON">>, <<"powerState", "OFF">>}

(* The components whose stream can fail.                                   *)
FaultyComps == {"proj"}

(* The configurations: the projector's "synchronous" argument (the preamp  *)
(* is asynchronous), the Thing's onChange, and the requests the shadow     *)
(* service makes of that Thing.                                            *)
Configs ==
    {[synchronous |-> FALSE, hook |-> "Thing",
      requests |-> {<<"projPowerState", "ON">>, <<"projPowerState", "DIM">>,
                    <<"brightness", "ON">>}],
     [synchronous |-> TRUE, hook |-> "Thing",
      requests |-> {<<"powerState", "ON">>, <<"powerState", "OFF">>}],
     [synchronous |-> FALSE, hook |-> "docExample", requests |-> {<<"volume", "50">>}],
     [synchronous |-> FALSE, hook |-> "TVThing", requests |-> {}]}

(* ------------------------------- Init ---------------------------------- *)
(* A variant of the gate that does not look at _exit.                      *)
gateNeverDone(cls, cache, exiting) ==
    IF ready(cls, cache) THEN "get" ELSE "sleep"

(* A variant of the gate that does not ask ready().                        *)
gateIgnoringReady(cls, cache, exiting) ==
    IF exiting THEN "done" ELSE "get"

(* A variant of the gate with the readiness test inverted.                 *)
gateInverted(cls, cache, exiting) ==
    IF exiting THEN "done" ELSE IF ready(cls, cache) THEN "sleep" ELSE "get"

(* _writeLoop: "while not self._exit", then the readiness gate: where the  *)
(* loop goes at the start of an iteration.                                 *)
gate(cls, cache, exiting) ==
    IF exiting THEN "done" ELSE IF ready(cls, cache) THEN "get" ELSE "sleep"

NoCall == [fn |-> "", cls |-> "", text |-> << >>, property |-> "", ret |-> << >>]

InitWith(classes, configs, caches) ==
    LET reg == registerComponents(ComponentList, 1, caches, NoRegistration) IN
    /\ classOf = classes
    /\ \E cf \in configs :
          /\ synchronous = [c \in Comps |-> c = "proj" /\ cf.synchronous]
          /\ hook = cf.hook
          /\ requests = cf.requests
    /\ call = NoCall
    /\ closes = [c \in Comps |-> 0]
    /\ alive = [c \in Comps |-> TRUE]
    /\ properties = caches
    /\ componentQueue = [c \in Comps |-> << >>]
    /\ exitFlag = [c \in Comps |-> FALSE]
    /\ readlock = [c \in Comps |-> IF synchronous[c] THEN "free" ELSE "read"]
    /\ wpc = [c \in Comps |-> gate(ClassOf(c), caches[c], FALSE)]
    /\ wq = [c \in Comps |-> << >>]
    /\ rpc = [c \in Comps |-> IF synchronous[c] THEN "none" ELSE "reading"]
    /\ rx = [c \in Comps |-> << >>]
    /\ tx = [c \in Comps |-> << >>]
    /\ fault = [c \in Comps |-> "none"]
    /\ eventQueue = << >>
    /\ localShadow = reg.shadow
    /\ propertyHandlers = reg.handlers
    /\ tpc = "wait"
    /\ messages = << >>
    /\ updatedProperties = << >>
    /\ published = << >>
    /\ lastReady = [c \in Comps |-> ready(ClassOf(c), caches[c])]
    /\ lastMsg = [c \in Comps |-> NoMsg]
    /\ lastDecode = [c \in Comps |-> [val |-> << >>, events |-> << >>, exiting |-> FALSE]]
    /\ cycle = [batch |-> << >>, sent |-> [c \in Comps |-> << >>], calls |-> << >>, pub |-> 0]
    /\ inputs = 0

Init ==
    InitWith(ExampleClasses, Configs, [c \in Comps |-> initializeProperties(ExampleClasses[c])])

(* Component.__init__(..., properties = ...): the caches start with the    *)
(* values the caller passes.                                               *)
InitialPower == {"UNKNOWN", "OFF"}

InitProps ==
    \E v \in InitialPower :
        InitWith(ExampleClasses, Configs,
                 [c \in Comps |->
                    IF c = "preamp"
                    THEN [initializeProperties(ExampleClasses[c]) EXCEPT !["powerState"] = v]
                    ELSE initializeProperties(ExampleClasses[c])])

(* --------------------------- the environment --------------------------- *)
Input ==
    /\ inputs < MaxInputs
    /\ inputs' = inputs + 1

(* The device sends a line.                                                *)
DeviceSend(c, line) ==
    /\ Input
    /\ rx' = [rx EXCEPT ![c] = Append(@, line)]
    /\ UNCHANGED <<configVars, thingVars, properties, componentQueue, exitFlag, readlock,
                   wpc, wq, rpc, tx, fault, eventQueue, lastReady, lastMsg, lastDecode>>

(* The device of c sends one of the lines of its kind.                     *)
AnyLine == UNION {ClassLines(cls) : cls \in ComponentClasses}
DeviceSendsOwnLine(c, line) ==
    /\ line \in DeviceLines(c)
    /\ DeviceSend(c, line)

(* Thing._deltaCallback for a delta naming one property.                   *)
deltaCallback(p, v) ==
    /\ Input
    /\ <<p, v>> \in requests
    /\ eventQueue' = Append(eventQueue, UpdateMsg("__thing__", p, v))
    /\ UNCHANGED <<configVars, thingVars, compVars, fault>>

(* Component.exit                                                          *)
exit(c) ==
    /\ Input
    /\ ~exitFlag[c]
    /\ exitFlag' = [exitFlag EXCEPT ![c] = TRUE]
    /\ componentQueue' = [componentQueue EXCEPT ![c] = Append(@, ExitMsg)]
    /\ UNCHANGED <<configVars, thingVars, properties, readlock, wpc, wq, rpc, rx, tx, fault,
                   eventQueue, lastReady, lastMsg, lastDecode>>

(* An EXIT message is put on the Thing's event queue.                      *)
ThingExit ==
    /\ Input
    /\ eventQueue' = Append(eventQueue, ExitMsg)
    /\ UNCHANGED <<configVars, thingVars, compVars, fault>>

(* From now on the stream's read (or write) raises an I/O error.           *)
StreamFault(c, op) ==
    /\ Input
    /\ \A d \in Comps : fault[d] = "none"
    /\ fault' = [fault EXCEPT ![c] = op]
    /\ UNCHANGED <<configVars, thingVars, compVars, eventQueue>>

(* ------------------------ the component's loops ------------------------ *)
(* The write loop's next iteration starts (with the cache as it then is).  *)
iterate(c, cache) ==
    /\ wpc' = [wpc EXCEPT ![c] = gate(ClassOf(c), cache, exitFlag[c])]
    /\ lastReady' = [lastReady EXCEPT ![c] =
                        IF exitFlag[c] THEN @ ELSE ready(ClassOf(c), cache)]

(* A variant of write that reads the reply inline whatever "synchronous"   *)
(* says, and without the lock.                                             *)
writeAlwaysInline(c, kind, text, rest) ==
    /\ wq' = [wq EXCEPT ![c] = rest]
    /\ tx' = [tx EXCEPT ![c] = Append(@, [kind |-> kind, text |-> text])]
    /\ readlock' = [readlock EXCEPT ![c] = "write"]
    /\ wpc' = [wpc EXCEPT ![c] = "inline"]
    /\ UNCHANGED lastReady

(* Component.write / _write of a command, with "rest" the status queries   *)
(* left to write afterwards: the stream write, and for a synchronous       *)
(* component the lock taken for the inline read of the reply.              *)
write(c, kind, text, rest) ==
    /\ wq' = [wq EXCEPT ![c] = rest]
    /\ IF fault[c] = "write"
       THEN /\ wpc' = [wpc EXCEPT ![c] = "ioerror"]
            /\ UNCHANGED <<tx, readlock, lastReady>>
       ELSE /\ tx' = [tx EXCEPT ![c] = Append(@, [kind |-> kind, text |-> text])]
            /\ IF synchronous[c]
               THEN /\ readlock[c] = "free"
                    /\ readlock' = [readlock EXCEPT ![c] = "write"]
                    /\ wpc' = [wpc EXCEPT ![c] = "inline"]
                    /\ UNCHANGED lastReady
               ELSE /\ IF rest = << >>
                       THEN iterate(c, properties[c])
                       ELSE /\ wpc' = [wpc EXCEPT ![c] = "wq"]
                            /\ UNCHANGED lastReady
                    /\ UNCHANGED readlock

(* The sleep of the not-ready branch ends with the component ready again   *)
(* and a message waiting in its mailbox.                                   *)
wakesToMessage(c) ==
    /\ wpc[c] = "sleep"
    /\ componentQueue[c] # << >>
    /\ ready(ClassOf(c), properties[c])

(* The 5 s of a sleep or of a mailbox time-out pass. It is an input of     *)
(* the run, except after exit() (the loop then ends with this iteration)   *)
(* and when the sleep ends with a message to take: these wake-ups are not  *)
(* counted (tx stays bounded all the same).                                *)
Poll(c) ==
    IF (exitFlag[c] \/ wakesToMessage(c)) /\ Len(tx[c]) <= 2 * MaxInputs
    THEN UNCHANGED inputs
    ELSE Input

(* "except queue.Empty": queryStatus(), whose commands are then written.   *)
startQuery(c) ==
    LET qs == queryStatus(ClassOf(c), properties[c]) IN
    /\ Poll(c)
    /\ wq' = [wq EXCEPT ![c] = qs]
    /\ IF qs = << >>
       THEN iterate(c, properties[c])
       ELSE /\ wpc' = [wpc EXCEPT ![c] = "wq"]
            /\ UNCHANGED lastReady

(* _writeLoop, not ready: time.sleep(5), raise queue.Empty.                *)
writeLoopSleep(c) ==
    /\ wpc[c] = "sleep"
    /\ startQuery(c)
    /\ UNCHANGED <<configVars, thingVars, properties, componentQueue, exitFlag, readlock,
                   rpc, rx, tx, fault, eventQueue, lastMsg, lastDecode>>

(* _writeLoop: the wait on the mailbox times out.                          *)
writeLoopTimeout(c) ==
    /\ wpc[c] = "get"
    /\ componentQueue[c] = << >>
    /\ startQuery(c)
    /\ UNCHANGED <<configVars, thingVars, properties, componentQueue, exitFlag, readlock,
                   rpc, rx, tx, fault, eventQueue, lastMsg, lastDecode>>

(* A variant that formats the requested value itself, not the handler's   *)
(* result.                                                                 *)
encodeUpdateRaw(cls, m) ==
    LET ret == propertyToComponent(cls, m.property) IN
    IF ~ret.found THEN [do |-> "skip", text |-> << >>]
    ELSE LET x == EncodeHandler(ret.cmd.method, m.value) IN
         IF x.exc = "none" THEN [do |-> "write", text |-> Format(ret.cmd, <<m.value>>)]
         ELSE IF x.exc \in Caught THEN [do |-> "skip", text |-> << >>]
         ELSE [do |-> "raise", text |-> << >>]

(* A variant that writes the bare template when the handler's exception    *)
(* is caught.                                                              *)
encodeUpdateWriteRejected(cls, m) ==
    LET ret == propertyToComponent(cls, m.property) IN
    IF ~ret.found THEN [do |-> "skip", text |-> << >>]
    ELSE LET x == EncodeHandler(ret.cmd.method, m.value) IN
         IF x.exc = "none" THEN [do |-> "write", text |-> Format(ret.cmd, x.val)]
         ELSE IF x.exc \in Caught THEN [do |-> "write", text |-> Format(ret.cmd, << >>)]
         ELSE [do |-> "raise", text |-> << >>]

(* What the write loop does with a dequeued UPDATE: "write" a command,     *)
(* "skip" (no rule, or the handler's exception is caught), or "raise".     *)
encodeUpdate(cls, m) ==
    LET ret == propertyToComponent(cls, m.property) IN
    IF ~ret.found THEN [do |-> "skip", text |-> << >>]
    ELSE LET x == EncodeHandler(ret.cmd.method, m.value) IN
         IF x.exc = "none" THEN [do |-> "write", text |-> Format(ret.cmd, x.val)]
         ELSE IF x.exc \in Caught THEN [do |-> "skip", text |-> << >>]
         ELSE [do |-> "raise", text |-> << >>]

(* _writeLoop: a message is taken from the mailbox and handled.            *)
writeLoopMessage(c) ==
    /\ wpc[c] = "get"
    /\ componentQueue[c] # << >>
    /\ LET m == Head(componentQueue[c]) IN
       /\ componentQueue' = [componentQueue EXCEPT ![c] = Tail(@)]
       /\ lastMsg' = [lastMsg EXCEPT ![c] = m]
       /\ IF m.action = "EXIT"
          THEN /\ wpc' = [wpc EXCEPT ![c] = "done"]
               /\ UNCHANGED <<wq, tx, readlock, lastReady>>
          ELSE LET e == encodeUpdate(ClassOf(c), m) IN
               IF e.do = "write" THEN write(c, "update", e.text, << >>)
               ELSE /\ IF e.do = "skip"
                       THEN iterate(c, properties[c])
                       ELSE /\ wpc' = [wpc EXCEPT ![c] = "crashed"]
                            /\ UNCHANGED lastReady
                    /\ UNCHANGED <<wq, tx, readlock>>
    /\ UNCHANGED <<configVars, thingVars, properties, exitFlag, rpc, rx, fault, eventQueue,
                   lastDecode, inputs>>

(* _writeLoop: the next status query is written.                           *)
writeLoopQuery(c) ==
    /\ wpc[c] = "wq"
    /\ write(c, "query", Head(wq[c]), Tail(wq[c]))
    /\ UNCHANGED <<configVars, thingVars, properties, componentQueue, exitFlag, rpc, rx,
                   fault, eventQueue, lastMsg, lastDecode, inputs>>

(* _readresponse on the stream: the next line the device sent, or, when    *)
(* the inactivity time-out passes first, the empty text.                   *)
readresponse(c) == IF rx[c] # << >> THEN Head(rx[c]) ELSE << >>

(* What decoding the text a read returned does to the cache and the event  *)
(* queue ("if val: self._processComponentResponse(val)").                  *)
decoded(c, val) ==
    IF val # << >>
    THEN processComponentResponse(c, ClassOf(c), properties[c], val)
    ELSE [cache |-> properties[c], events |-> << >>, exc |-> "none"]

(* A variant in which the objects of a class share one properties dict.    *)
cachesSharedByClass(c, cache) ==
    [d \in Comps |-> IF ClassOf(d) = ClassOf(c) THEN cache ELSE properties[d]]

(* self.properties, the dict that _initializeProperties made for this      *)
(* object, is the one _updateThing writes: the caches after c's is set.    *)
cachesWith(c, cache) == [properties EXCEPT ![c] = cache]

(* A stream read has returned val: the line is consumed and decoded.       *)
afterRead(c, val) ==
    /\ rx' = [rx EXCEPT ![c] = IF @ # << >> THEN Tail(@) ELSE @]
    /\ properties' = cachesWith(c, decoded(c, val).cache)
    /\ eventQueue' = eventQueue \o decoded(c, val).events
    /\ lastDecode' = IF val = << >> THEN lastDecode
                     ELSE [lastDecode EXCEPT
                              ![c] = [val |-> val, events |-> decoded(c, val).events,
                                      exiting |-> exitFlag[c]]]

(* A variant in which the lock stays with the thread that took it.         *)
heldAfterWith(holder) == holder

(* "with self._readlock:" ends, by a return or by an exception: the lock   *)
(* that holder had taken is released.                                      *)
afterWith(holder) == "free"

(* _write of a synchronous component: the inline read of the reply         *)
(* returns and the lock is released. _readresponse has already decoded     *)
(* the bytes, so "return retval.decode()" is applied to a str and raises    *)
(* AttributeError, which no except clause of _writeLoop names: the reply    *)
(* is consumed, nothing is decoded, and the write loop's thread ends.      *)
writeLoopInlineRead(c) ==
    /\ wpc[c] = "inline"
    /\ readlock' = [readlock EXCEPT ![c] = afterWith("write")]
    /\ IF fault[c] = "read"
       THEN /\ wpc' = [wpc EXCEPT ![c] = "ioerror"]
            /\ UNCHANGED rx
       ELSE /\ rx' = [rx EXCEPT ![c] = IF @ # << >> THEN Tail(@) ELSE @]
            /\ wpc' = [wpc EXCEPT ![c] = "AttributeError"]
    /\ UNCHANGED <<configVars, thingVars, properties, componentQueue, exitFlag, wq, rpc, tx,
                   fault, eventQueue, lastReady, lastMsg, lastDecode, inputs>>

(* A variant of the read loop's condition that does not look at _exit.     *)
readLoopNextAlways(exiting) == "reading"

(* _readLoop: "while not self._exit", evaluated after a read was handled:  *)
(* the next read starts, or the loop ends.                                 *)
readLoopNext(exiting) == IF exiting THEN "done" ELSE "reading"

(* _readLoop: the read in flight returns a line (or raises), the line is   *)
(* decoded, and unless _exit is set the next read starts.                  *)
readLoopRead(c) ==
    /\ rpc[c] = "reading"
    /\ IF fault[c] = "read"
       THEN /\ rpc' = [rpc EXCEPT ![c] = "ioerror"]
            /\ readlock' = [readlock EXCEPT ![c] = afterWith("read")]
            /\ UNCHANGED <<rx, properties, eventQueue, lastDecode>>
       ELSE /\ rx[c] # << >> \/ exitFlag[c]
            /\ afterRead(c, readresponse(c))
            /\ rpc' = [rpc EXCEPT ![c] = readLoopNext(exitFlag[c])]
            /\ readlock' = [readlock EXCEPT
                               ![c] = IF readLoopNext(exitFlag[c]) = "reading" THEN "read"
                                      ELSE afterWith("read")]
    /\ UNCHANGED <<configVars, thingVars, componentQueue, exitFlag, wpc, wq, tx, fault,
                   lastReady, lastMsg, inputs>>

(* --------------------------- Thing._main ------------------------------- *)
(* The blocking get of the first message, the 0.1 s sleep, and the drain   *)
(* of every message then queued.                                           *)
mainGet ==
    /\ tpc = "wait"
    /\ eventQueue # << >>
    /\ messages' = eventQueue
    /\ eventQueue' = << >>
    /\ updatedProperties' = << >>
    /\ tpc' = "process"
    /\ cycle' = [batch |-> eventQueue, sent |-> [c \in Comps |-> << >>], calls |-> << >>,
                 pub |-> Len(published)]
    /\ UNCHANGED <<configVars, compVars, fault, localShadow, propertyHandlers, published,
                   inputs>>

(* The messages a step of the Thing put on the mailboxes, added to those   *)
(* of the cycle so far.                                                    *)
sentWith(queues) ==
    [c \in Comps |->
        cycle.sent[c] \o SubSeq(queues[c], Len(componentQueue[c]) + 1, Len(queues[c]))]

(* A variant in which an EXIT message is skipped and the batch goes on.     *)
afterExitGoOn == "process"

(* Thing._main: "if message['action'] == 'EXIT': return".                  *)
afterExit == "done"

(* One message of the batch is processed.                                  *)
mainMessage ==
    /\ tpc = "process"
    /\ messages # << >>
    /\ LET m == Head(messages) IN
       /\ messages' = Tail(messages)
       /\ IF m.action = "EXIT"
          THEN /\ tpc' = afterExit
               /\ UNCHANGED <<componentQueue, updatedProperties, cycle>>
          ELSE IF fromThing(m)
          THEN IF m.property \in DOMAIN propertyHandlers
               THEN LET q == updateComponent(componentQueue, propertyHandlers[m.property],
                                             m.property, m.value)
                    IN  /\ componentQueue' = q
                        /\ cycle' = [cycle EXCEPT !.sent = sentWith(q)]
                        /\ UNCHANGED <<tpc, updatedProperties>>
               ELSE /\ tpc' = "KeyError"
                    /\ UNCHANGED <<componentQueue, updatedProperties, cycle>>
          ELSE LET upd == (m.property :> m.value) @@ updatedProperties
                   oc == onChange(hook, hookArgument(upd, m))
                   fw == forwardChanges(oc.rv, 1, propertyHandlers,
                                        [queues |-> componentQueue, exc |-> oc.exc])
               IN  /\ updatedProperties' = upd
                   /\ componentQueue' = fw.queues
                   /\ cycle' = [cycle EXCEPT !.sent = sentWith(fw.queues),
                                             !.calls = Append(@, hookArgument(upd, m))]
                   /\ tpc' = IF fw.exc = "none" THEN tpc ELSE fw.exc
    /\ UNCHANGED <<configVars, properties, exitFlag, readlock, wpc, wq, rpc, rx, tx, fault,
                   eventQueue, localShadow, propertyHandlers, published, lastReady, lastMsg,
                   lastDecode, inputs>>

(* The end of the cycle: the diff against the shadow and the publish.      *)
mainPublish ==
    /\ tpc = "process"
    /\ messages = << >>
    /\ IF updateNeeded(updatedProperties, localShadow)
       THEN /\ published' = Append(published, payloadOf(updatedProperties, localShadow))
            /\ localShadow' = shadowAfter(updatedProperties, localShadow)
       ELSE UNCHANGED <<published, localShadow>>
    /\ tpc' = "wait"
    /\ UNCHANGED <<configVars, compVars, fault, eventQueue, propertyHandlers, messages,
                   updatedProperties, cycle, inputs>>

(* ------------------------------- Next ---------------------------------- *)
Next ==
    \/ \E c \in Comps : \E line \in AnyLine : DeviceSendsOwnLine(c, line)
    \/ \E r \in DeltaRequests : deltaCallback(r[1], r[2])
    \/ \E c \in Comps : exit(c)
    \/ ThingExit
    \/ \E c \in FaultyComps : \E op \in {"read", "write"} : StreamFault(c, op)
    \/ \E c \in Comps : writeLoopSleep(c)
    \/ \E c \in Comps : writeLoopTimeout(c)
    \/ \E c \in Comps : writeLoopMessage(c)
    \/ \E c \in Comps : writeLoopQuery(c)
    \/ \E c \in Comps : writeLoopInlineRead(c)
    \/ \E c \in Comps : readLoopRead(c)
    \/ mainGet
    \/ mainMessage
    \/ mainPublish

Spec == Init /\ [][Next]_vars

(* A step of c's write loop that needs nothing from outside: the end of a  *)
(* sleep, a message waiting in the mailbox, a query to write, an inline    *)
(* read that returns.                                                      *)
writeLoopStep(c) ==
    \/ writeLoopSleep(c)
    \/ writeLoopMessage(c)
    \/ writeLoopQuery(c)
    \/ writeLoopInlineRead(c)

(* The write loops are threads that the scheduler keeps running.           *)
WriteLoopFairness == \A c \in Comps : WF_vars(writeLoopStep(c))

(* So are the read loops: a read that can return does.                     *)
ReadLoopFairness == \A c \in Comps : WF_vars(readLoopRead(c))

(* The fair runs are those of the Thing without an onChange override.      *)
InitFair == Init /\ hook = "Thing"

SpecFair == InitFair /\ [][Next]_vars /\ WriteLoopFairness /\ ReadLoopFairness

(* The same system with components built by the constructor that takes the *)
(* initial property values from its caller.                                *)
SpecProps == InitProps /\ [][Next]_vars

(* ------------------- the translation table, called directly ------------ *)
(* The classes: those of example.py and the derived class.                 *)
Classes == {"preampComponent", "projectorComponent", "derivedPreamp"}

(* Lines for the preamp's decode path: the power messages, two combined    *)
(* responses, a line no pattern matches, and lines of which a pattern      *)
(* matches a proper prefix only.                                           *)
TestLines ==
    {<<"P", "1", "P", "1">>, <<"P", "1", "P", "0">>,
     <<"P", "1", "S", "5", "V", "-", "3", "5", ".", "0", "M", "0", "D", "0", "E", "0">>,
     <<"P", "1", "S", "5", "V", "-", "3", "5", ".", "0", "M", "1", "D", "0", "E", "0">>,
     <<"P", "1", "X">>,
     <<"P", "1", "P", "1", "0">>,
     <<"P", "1", "M", "1", "X">>}

(* Lines and property names for the direct calls, which are made before    *)
(* the device has sent anything.                                           *)
CallLines == TestLines \cup {<<"P", "1", "M", "1">>, <<"P", "1", "S", "5">>,
                             <<"P", "W", "R", "=", "0", "1">>}
CallProperties ==
    {"powerState", "input", "reset", "display", "projInput", "brightness", "power"}

(* cls._componentToProperty(text)                                          *)
componentToPropertyCall(cls, text) ==
    /\ inputs = 0
    /\ call' = [fn |-> "_componentToProperty", cls |-> cls, text |-> text, property |-> "",
                ret |-> componentToProperty(cls, text)]
    /\ UNCHANGED <<setupVars, lifeVars, thingVars, compVars, fault, eventQueue,
                   inputs>>

(* cls._propertyToComponent(property)                                      *)
propertyToComponentCall(cls, property) ==
    /\ inputs = 0
    /\ call' = [fn |-> "_propertyToComponent", cls |-> cls, text |-> << >>,
                property |-> property, ret |-> propertyToComponent(cls, property)]
    /\ UNCHANGED <<setupVars, lifeVars, thingVars, compVars, fault, eventQueue,
                   inputs>>

(* _initializeProperties() of a new object of class cls                    *)
initializePropertiesCall(cls) ==
    /\ inputs = 0
    /\ call' = [fn |-> "_initializeProperties", cls |-> cls, text |-> << >>, property |-> "",
                ret |-> initializeProperties(cls)]
    /\ UNCHANGED <<setupVars, lifeVars, thingVars, compVars, fault, eventQueue,
                   inputs>>

(* A value is encoded as the write loop encodes an UPDATE, and the command *)
(* text is then decoded as the read loop decodes a line: the rule found    *)
(* for it and the result of its handler on each group.                     *)
RoundTripProperties == {"powerState", "input", "muted"}
RoundTripValues == {"ON", "OFF", "CD", "DVD", "AUX", "True", "False", "DIM"}

roundTripCall(cls, property, value) ==
    /\ inputs = 0
    /\ LET e == encodeUpdate(cls, UpdateMsg("__thing__", property, value))
           r == IF e.do = "write" THEN componentToProperty(cls, e.text) ELSE [found |-> FALSE]
       IN  call' = [fn |-> "roundTrip", cls |-> cls, text |-> e.text, property |-> property,
                    ret |-> [value |-> value, do |-> e.do,
                             pairs |-> IF r.found
                                       THEN [i \in DOMAIN r.props |->
                                               <<r.props[i],
                                                 DecodeHandler(r.method, r.props[i], r.groups[i])>>]
                                       ELSE << >>]]
    /\ UNCHANGED <<setupVars, lifeVars, thingVars, compVars, fault, eventQueue, inputs>>

(* What one self._stream.read() of _readresponse can give: a byte; or     *)
(* nothing, with the inactivity still within the time-out; or nothing,     *)
(* with the time-out passed. One byte is not valid UTF-8.                   *)
Nothing == "nothing"
Expired == "expired"
BadByte == "0xFF"
Eol == "\n"

(* A variant of the time-out branch that drops what was buffered.          *)
onTimeoutEmpty(buffer) == << >>

(* _readresponse: "elif time.time() - last_activity > timeout:             *)
(* retval = buffer".                                                       *)
onTimeout(buffer) == buffer

(* "return retval.decode()" of the bytes read.                             *)
decodeBytes(bytes) ==
    IF \E i \in 1..Len(bytes) : bytes[i] = BadByte
    THEN Raise("UnicodeDecodeError")
    ELSE Ok(bytes)

(* _readresponse on a stream that gives reads[i], reads[i+1], ... with     *)
(* buffer accumulated so far: the bytes up to the end-of-line marker,      *)
(* without it, or the buffer when the time-out passes; what happens when   *)
(* the reads run out is that the loop keeps polling (no return).           *)
RECURSIVE readresponseFrom(_, _, _)
readresponseFrom(reads, i, buffer) ==
    IF i > Len(reads) THEN [returns |-> FALSE, exc |-> "none", val |-> << >>]
    ELSE IF reads[i] = Nothing THEN readresponseFrom(reads, i + 1, buffer)
    ELSE IF reads[i] = Expired
         THEN [returns |-> TRUE] @@ decodeBytes(onTimeout(buffer))
    ELSE IF reads[i] = Eol
         THEN [returns |-> TRUE] @@ decodeBytes(buffer)
    ELSE readresponseFrom(reads, i + 1, Append(buffer, reads[i]))

(* One iteration of _readLoop of a new object of class cls on such a       *)
(* stream: "val = self.read(); if val: self._processComponentResponse(val)" *)
NoDecode == [cache |-> << >>, events |-> << >>, exc |-> "not called"]
readLoopOnce(cls, reads) ==
    LET r == readresponseFrom(reads, 1, << >>) IN
    [read |-> r,
     decode |-> IF r.returns /\ r.exc = "none" /\ r.val # << >>
                THEN processComponentResponse("preamp", cls, initializeProperties(cls), r.val)
                ELSE NoDecode]

(* The streams of the direct calls: a text, then the end-of-line marker or *)
(* the time-out, then possibly more.                                       *)
ReadTexts ==
    {<< >>, <<"P", "1", "P", "1">>, <<"P", "1", "P">>, <<"P", Nothing, "1", "P", "0">>,
     <<"P", "1", BadByte>>,
     <<"P", "1", "S", "5", "V", "-", "3", "5", ".", "0", "M", "1", "D", "0", "E", "0">>}
ReadEnds == {<<Eol>>, <<Expired>>, <<Nothing, Eol>>, <<Nothing, Expired>>}
ReadRest == {<< >>, <<"P", "1", "P", "0", Eol>>}
ReadStreams == {t \o e \o r : t \in ReadTexts, e \in ReadEnds, r \in ReadRest}

readLoopCall(cls, reads) ==
    /\ inputs = 0
    /\ call' = [fn |-> "_readLoop", cls |-> cls, text |-> reads, property |-> "",
                ret |-> readLoopOnce(cls, reads)]
    /\ UNCHANGED <<setupVars, lifeVars, thingVars, compVars, fault, eventQueue, inputs>>

(* The preamp's device sends a test line (in the runs without a direct    *)
(* call).                                                                  *)
DeviceSendsTestLine(line) ==
    /\ call = NoCall
    /\ DeviceSend("preamp", line)

(* An asynchronous preamp whose device sends the test lines, with nobody   *)
(* else running; or else one of the class methods is called on a class.    *)
InitCalls == Init /\ hook = "Thing" /\ ~synchronous["proj"]

NextCalls ==
    \/ \E line \in TestLines : DeviceSendsTestLine(line)
    \/ readLoopRead("preamp")
    \/ \E cls \in Classes : \E text \in CallLines : componentToPropertyCall(cls, text)
    \/ \E cls \in Classes : \E p \in CallProperties : propertyToComponentCall(cls, p)
    \/ \E cls \in Classes : initializePropertiesCall(cls)
    \/ \E cls \in Classes : \E p \in RoundTripProperties : \E v \in RoundTripValues :
          roundTripCall(cls, p, v)
    \/ \E cls \in ComponentClasses : \E reads \in ReadStreams : readLoopCall(cls, reads)

SpecCalls == InitCalls /\ [][NextCalls]_vars

(* --------------------- the Thing of example.py, fair -------------------- *)
(* Thing.start runs _main on a thread that the scheduler keeps running.    *)
ThingFairness == WF_vars(mainGet) /\ WF_vars(mainMessage) /\ WF_vars(mainPublish)

(* The TVThing of example.py with its components; nobody asks for an exit  *)
(* and the streams do not fail.                                            *)
InitTV == Init /\ hook = "TVThing"

NextTV ==
    \/ \E c \in Comps : \E line \in AnyLine : DeviceSendsOwnLine(c, line)
    \/ \E c \in Comps : writeLoopSleep(c)
    \/ \E c \in Comps : writeLoopTimeout(c)
    \/ \E c \in Comps : writeLoopMessage(c)
    \/ \E c \in Comps : writeLoopQuery(c)
    \/ \E c \in Comps : readLoopRead(c)
    \/ mainGet
    \/ mainMessage
    \/ mainPublish

SpecTV ==
    InitTV /\ [][NextTV]_vars /\ WriteLoopFairness /\ ReadLoopFairness /\ ThingFairness

(* ------------------------ the projector warming up --------------------- *)
(* The system some time after start-up: the projector has reported that it *)
(* is warming up (PWR=02), its read loop has decoded the line, and its     *)
(* write loop, after a time-out and the status query, has found ready()    *)
(* false and sleeps. The Thing has not yet taken the report.               *)
WarmingLine == <<"P", "W", "R", "=", "0", "2">>
WarmingReport == UpdateMsg("proj", "projPowerState", "WARMING")
WarmingCaches ==
    [c \in Comps |->
        IF c = "proj"
        THEN [initializeProperties(ExampleClasses[c]) EXCEPT !["projPowerState"] = "WARMING"]
        ELSE initializeProperties(ExampleClasses[c])]

WarmingUp ==
    LET caches == [c \in Comps |-> initializeProperties(ExampleClasses[c])]
        reg == registerComponents(ComponentList, 1, caches, NoRegistration) IN
    /\ classOf = ExampleClasses
    /\ synchronous = [c \in Comps |-> FALSE]
    /\ hook = "Thing"
    /\ requests = {<<"projPowerState", "ON">>, <<"projPowerState", "DIM">>,
                   <<"brightness", "ON">>}
    /\ call = NoCall
    /\ closes = [c \in Comps |-> 0]
    /\ alive = [c \in Comps |-> TRUE]
    /\ properties = WarmingCaches
    /\ componentQueue = [c \in Comps |-> << >>]
    /\ exitFlag = [c \in Comps |-> FALSE]
    /\ readlock = [c \in Comps |-> "read"]
    /\ wpc = [c \in Comps |-> gate(ExampleClasses[c], WarmingCaches[c], FALSE)]
    /\ wq = [c \in Comps |-> << >>]
    /\ rpc = [c \in Comps |-> "reading"]
    /\ rx = [c \in Comps |-> << >>]
    /\ tx = [c \in Comps |->
                IF c = "proj"
                THEN << [kind |-> "query", text |-> <<"P", "W", "R", "?", "\r">>] >>
                ELSE << >>]
    /\ fault = [c \in Comps |-> "none"]
    /\ eventQueue = <<WarmingReport>>
    /\ localShadow = reg.shadow
    /\ propertyHandlers = reg.handlers
    /\ tpc = "wait"
    /\ messages = << >>
    /\ updatedProperties = << >>
    /\ published = << >>
    /\ lastReady = [c \in Comps |-> ready(ExampleClasses[c], WarmingCaches[c])]
    /\ lastMsg = [c \in Comps |-> NoMsg]
    /\ lastDecode = [c \in Comps |->
                        IF c = "proj"
                        THEN [val |-> WarmingLine, events |-> <<WarmingReport>>,
                              exiting |-> FALSE]
                        ELSE [val |-> << >>, events |-> << >>, exiting |-> FALSE]]
    /\ cycle = [batch |-> << >>, sent |-> [c \in Comps |-> << >>], calls |-> << >>, pub |-> 0]

(* From there on: nobody asks for an exit and the streams do not fail; the *)
(* loops are the threads the scheduler keeps running.                      *)
InitWarming == WarmingUp /\ inputs = 0

NextWarming ==
    \/ \E c \in Comps : \E line \in AnyLine : DeviceSendsOwnLine(c, line)
    \/ \E r \in DeltaRequests : deltaCallback(r[1], r[2])
    \/ \E c \in Comps : writeLoopSleep(c)
    \/ \E c \in Comps : writeLoopTimeout(c)
    \/ \E c \in Comps : writeLoopMessage(c)
    \/ \E c \in Comps : writeLoopQuery(c)
    \/ \E c \in Comps : readLoopRead(c)
    \/ mainGet
    \/ mainMessage
    \/ mainPublish

SpecWarming ==
    InitWarming /\ [][NextWarming]_vars
        /\ WriteLoopFairness /\ ReadLoopFairness /\ ThingFairness

(* ------------------- the components without the Thing ------------------ *)
(* The two components on their own: the devices send lines (the preamp's   *)
(* also lines that no pattern matches or that a handler rejects), exit()   *)
(* is called, the projector's stream fails; nobody takes the events.       *)
NextStreams ==
    \/ \E line \in TestLines : DeviceSendsTestLine(line)
    \/ \E c \in Comps : \E line \in AnyLine : DeviceSendsOwnLine(c, line)
    \/ \E c \in Comps : exit(c)
    \/ \E c \in FaultyComps : \E op \in {"read", "write"} : StreamFault(c, op)
    \/ \E c \in Comps : writeLoopSleep(c)
    \/ \E c \in Comps : writeLoopTimeout(c)
    \/ \E c \in Comps : writeLoopMessage(c)
    \/ \E c \in Comps : writeLoopQuery(c)
    \/ \E c \in Comps : writeLoopInlineRead(c)
    \/ \E c \in Comps : readLoopRead(c)

SpecStreams == InitFair /\ [][NextStreams]_vars

(* ------------------- two components of the same class ------------------ *)
(* A Thing given two preampComponent objects, which declare the same four  *)
(* properties; its onChange is the one of the documentation, and the       *)
(* shadow service asks for the power state.                                *)
TwinClasses == [c \in Comps |-> "preampComponent"]
TwinConfigs ==
    {[synchronous |-> FALSE, hook |-> "docExample",
      requests |-> {<<"powerState", "ON">>, <<"powerState", "OFF">>}]}

InitTwin ==
    InitWith(TwinClasses, TwinConfigs, [c \in Comps |-> initializeProperties(TwinClasses[c])])

NextTwin ==
    \/ \E c \in Comps : \E line \in AnyLine : DeviceSendsOwnLine(c, line)
    \/ \E r \in DeltaRequests : deltaCallback(r[1], r[2])
    \/ \E c \in Comps : writeLoopTimeout(c)
    \/ \E c \in Comps : writeLoopMessage(c)
    \/ \E c \in Comps : writeLoopQuery(c)
    \/ \E c \in Comps : readLoopRead(c)
    \/ mainGet
    \/ mainMessage
    \/ mainPublish

SpecTwin == InitTwin /\ [][NextTwin]_vars

(* ------------------------ the component's lifetime --------------------- *)
(* The threads started by _start have returned, and Thing.start has.       *)
ThreadsEnded(c) ==
    /\ wpc[c] \in {"done", "crashed", "AttributeError", "ioerror"}
    /\ rpc[c] \in {"none", "done", "ioerror"}
ThingEnded == tpc \notin {"wait", "process"}

(* Component.close, called by the component's owner; here once, after the  *)
(* loops have returned (under a running loop it is a stream fault).        *)
close(c) ==
    /\ Input
    /\ alive[c] /\ ThreadsEnded(c) /\ closes[c] = 0
    /\ closes' = [closes EXCEPT ![c] = @ + 1]
    /\ UNCHANGED <<setupVars, call, alive, thingVars, compVars, fault,
                   eventQueue>>

(* Component.__del__: the object is finalized once nothing refers to it    *)
(* any more: its threads have returned and the Thing that registered it    *)
(* has ended.                                                              *)
del(c) ==
    /\ alive[c] /\ ThreadsEnded(c) /\ ThingEnded
    /\ closes' = [closes EXCEPT ![c] = @ + 1]
    /\ alive' = [alive EXCEPT ![c] = FALSE]
    /\ UNCHANGED <<setupVars, call, thingVars, compVars, fault, eventQueue,
                   inputs>>

NextLife ==
    \/ \E c \in Comps : \E line \in AnyLine : DeviceSendsOwnLine(c, line)
    \/ \E r \in DeltaRequests : deltaCallback(r[1], r[2])
    \/ \E c \in Comps : exit(c)
    \/ ThingExit
    \/ \E c \in FaultyComps : \E op \in {"read", "write"} : StreamFault(c, op)
    \/ \E c \in Comps : writeLoopSleep(c)
    \/ \E c \in Comps : writeLoopTimeout(c)
    \/ \E c \in Comps : writeLoopMessage(c)
    \/ \E c \in Comps : writeLoopQuery(c)
    \/ \E c \in Comps : writeLoopInlineRead(c)
    \/ \E c \in Comps : readLoopRead(c)
    \/ mainGet
    \/ mainMessage
    \/ mainPublish
    \/ \E c \in Comps : close(c)
    \/ \E c \in Comps : del(c)

(* The system together with its owner, who may close a component and drops *)
(* it in the end.                                                          *)
SpecLife == Init /\ [][NextLife]_vars

(* ----------------------------- properties ------------------------------ *)
(* What a step does, read off the state before and after it.               *)
Dequeues(c) == Len(componentQueue'[c]) < Len(componentQueue[c])
DequeuesUpdate(c) == Dequeues(c) /\ Head(componentQueue[c]).action = "UPDATE"
QueryInvoked(c) == wq[c] = << >> /\ wq'[c] # << >>
Written(c) == {i \in 1..Len(tx'[c]) : i > Len(tx[c])}
Pushed == {k \in 1..Len(eventQueue') : k > Len(eventQueue)}
ConsumesLine(c) == rx[c] # << >> /\ rx'[c] = Tail(rx[c])
DecodesLine(c) == ConsumesLine(c) /\ rpc[c] = "reading"

(* C1, as stated: while the last readiness gate of a component's write     *)
(* loop returned false, the loop neither invokes queryStatus() nor writes  *)
(* any command to the stream.                                              *)
C1_NotReadyNoQueryNoWrite ==
    [][\A c \in Comps : ~lastReady[c] => ~QueryInvoked(c) /\ tx'[c] = tx[c]]_vars

(* C1, amended: while the last readiness gate returned false, the write    *)
(* loop takes nothing from the mailbox and writes no update command; what  *)
(* it does after its sleep is invoke queryStatus(), and status queries are *)
(* all it writes.                                                          *)
C1_NotReadyOnlyQueries ==
    [][\A c \in Comps :
          ~lastReady[c] =>
              /\ ~Dequeues(c)
              /\ \A i \in Written(c) : tx'[c][i].kind = "query"
              /\ (wpc[c] = "sleep" /\ wpc'[c] # "sleep")
                    => wq'[c] = queryStatus(ClassOf(c), properties[c])]_vars

(* The gate returned false, and queryStatus() has been invoked after the   *)
(* sleep: its queries are about to be written.                             *)
C1_Witness ==
    \E c \in Comps : ~lastReady[c] /\ ~ready(ClassOf(c), properties[c]) /\ wpc[c] = "wq"

(* C2, as stated: whenever a write loop takes an Update from its mailbox,  *)
(* ready() is true of the component's cache at that moment.                *)
C2_DequeueOnlyWhenReady ==
    [][\A c \in Comps : DequeuesUpdate(c) => ready(ClassOf(c), properties[c])]_vars

(* C3, as stated for an Update from the shadow service naming a property   *)
(* no component owns: the Thing's loop is not stopped by the failed        *)
(* lookup of the owner.                                                    *)
C3_UnknownPropertyDoesNotStopLoop == tpc # "KeyError"

(* The value last published for p, or the initial value.                   *)
LastPublished(p) ==
    LET idx == {i \in 1..Len(published) : p \in DOMAIN published[i]} IN
    IF idx = {} THEN "UNKNOWN"
    ELSE published[CHOOSE i \in idx : \A j \in idx : j <= i][p]

(* C4, as stated: at every cycle boundary of the Thing's loop, localShadow *)
(* holds for each property the value last published for it (or the        *)
(* initial one).                                                           *)
C4_ShadowIsLastPublished ==
    tpc = "wait" => \A p \in DOMAIN localShadow : localShadow[p] = LastPublished(p)

C6_NoEventAfterIOError ==
    [][\A c \in Comps :
          (wpc[c] = "ioerror" \/ rpc[c] = "ioerror")
              => \A k \in Pushed : eventQueue'[k].source # c]_vars

(* The groups of a line that a decoding step of component c decodes to a   *)
(* value: <<property, value>> pairs.                                       *)
DecodedPairs(c) ==
    LET ret == componentToProperty(ClassOf(c), Head(rx[c])) IN
    IF ~ret.found \/ processComponentResponse(c, ClassOf(c), properties[c], Head(rx[c])).exc # "none"
    THEN {}
    ELSE {<<ret.props[i], DecodeHandler(ret.method, ret.props[i], ret.groups[i]).val>> :
             i \in {j \in 1..Len(ret.props) :
                       DecodeHandler(ret.method, ret.props[j], ret.groups[j]).exc = "none"}}

(* C7: when a component decodes a line to a value equal to the cached      *)
(* value of the property, it pushes no event for that property and the     *)
(* cached value stays.                                                     *)
C7_EqualValueSuppressed ==
    [][\A c \in Comps :
          DecodesLine(c) =>
              \A d \in DecodedPairs(c) :
                  d[2] = properties[c][d[1]] =>
                      /\ properties'[c][d[1]] = properties[c][d[1]]
                      /\ \A k \in Pushed :
                            ~(eventQueue'[k].source = c /\ eventQueue'[k].property = d[1])]_vars

(* The preamp has decoded "P1P1" with powerState already cached as ON:     *)
(* the decode pushed nothing.                                              *)
C7_Witness ==
    /\ lastDecode["preamp"] = [val |-> <<"P", "1", "P", "1">>, events |-> << >>,
                               exiting |-> FALSE]
    /\ properties["preamp"]["powerState"] = "ON"

(* C8: when a component decodes a line to a value that differs from the    *)
(* cached value of the property, it pushes exactly one Update message      *)
(* {source = its name, property, value} for that property and caches the   *)
(* value.                                                                  *)
C8_ChangedValuePushedOnce ==
    [][\A c \in Comps :
          DecodesLine(c) =>
              \A d \in DecodedPairs(c) :
                  d[2] # properties[c][d[1]] =>
                      /\ properties'[c][d[1]] = d[2]
                      /\ Cardinality({k \in Pushed : eventQueue'[k].property = d[1]}) = 1
                      /\ \A k \in Pushed :
                            eventQueue'[k].property = d[1]
                                => eventQueue'[k] = UpdateMsg(c, d[1], d[2])]_vars

(* The preamp has decoded "P1P1": one Update for powerState = ON was       *)
(* pushed and the value is cached.                                         *)
C8_Witness ==
    /\ lastDecode["preamp"] = [val |-> <<"P", "1", "P", "1">>,
                               events |-> <<UpdateMsg("preamp", "powerState", "ON")>>,
                               exiting |-> FALSE]
    /\ properties["preamp"]["powerState"] = "ON"

(* C9: when the write loop takes an Update whose property has a rule and   *)
(* whose value the handler accepts, it writes the rule's template filled   *)
(* with the handler's result, once: projPowerState = ON is written as      *)
(* "PWR ON\r".                                                             *)
C9_AcceptedUpdateWrittenOnce ==
    [][\A c \in Comps :
          DequeuesUpdate(c) /\ fault[c] # "write" =>
              LET m == Head(componentQueue[c])
                  ret == propertyToComponent(ClassOf(c), m.property)
              IN  (ret.found /\ EncodeHandler(ret.cmd.method, m.value).exc = "none") =>
                      /\ tx'[c] = Append(tx[c],
                            [kind |-> "update",
                             text |-> ret.cmd.pre \o EncodeHandler(ret.cmd.method, m.value).val
                                        \o ret.cmd.post])
                      /\ (m.property = "projPowerState" /\ m.value = "ON")
                            => tx'[c][Len(tx'[c])].text = <<"P", "W", "R", " ", "O", "N", "\r">>]_vars

(* The projector's write loop took the Update projPowerState = ON and the  *)
(* last thing written to its stream is the command "PWR ON\r".             *)
C9_Witness ==
    /\ lastMsg["proj"] = UpdateMsg("__thing__", "projPowerState", "ON")
    /\ tx["proj"] # << >>
    /\ tx["proj"][Len(tx["proj"])] =
          [kind |-> "update", text |-> <<"P", "W", "R", " ", "O", "N", "\r">>]

(* C10: when the write loop takes an Update whose value the handler        *)
(* rejects, nothing is written, no cache changes, no event is pushed and   *)
(* nothing is published.                                                   *)
C10_RejectedUpdateNoEffect ==
    [][\A c \in Comps :
          DequeuesUpdate(c) =>
              LET m == Head(componentQueue[c])
                  ret == propertyToComponent(ClassOf(c), m.property)
              IN  (ret.found /\ EncodeHandler(ret.cmd.method, m.value).exc \in Caught) =>
                      /\ tx' = tx
                      /\ properties' = properties
                      /\ eventQueue' = eventQueue
                      /\ published' = published]_vars

(* The projector's write loop took the Update projPowerState = DIM, is     *)
(* back at its mailbox, and nothing was written, cached or published.      *)
C10_Witness ==
    /\ lastMsg["proj"] = UpdateMsg("__thing__", "projPowerState", "DIM")
    /\ wpc["proj"] = "get"
    /\ tx["proj"] = << >>
    /\ properties["proj"]["projPowerState"] = "UNKNOWN"
    /\ published = << >>

(* C11, as stated for the write loop: whatever exception a property-to-    *)
(* device handler raises, the write loop that called it keeps running.     *)
C11_HandlerExceptionKeepsLoop == \A c \in Comps : wpc[c] # "crashed"

(* The messages of the current batch that the Thing has processed, while   *)
(* its loop is in a cycle or between two cycles.                           *)
InCycle == tpc \in {"process", "wait"}
Processed == SubSeq(cycle.batch, 1, Len(cycle.batch) - Len(messages))
Count(seq, x) == Cardinality({i \in 1..Len(seq) : seq[i] = x})
IsExternal(m) == m.action = "UPDATE" /\ m.source = "__thing__"
IsReport(m) == m.action = "UPDATE" /\ m.source # "__thing__"
PublishedInCycle == Len(published) > cycle.pub

(* C12: no publish happens while messages of the batch are still to be     *)
(* processed, and once the cycle has published, every external-origin      *)
(* Update of its batch was put on the mailbox of the property's owner.     *)
C12_ExternalDispatchedBeforePublish ==
    /\ tpc = "process" => ~PublishedInCycle
    /\ PublishedInCycle =>
          \A i \in 1..Len(cycle.batch) :
              LET m == cycle.batch[i] IN
              IsExternal(m) =>
                  /\ m.property \in DOMAIN propertyHandlers
                  /\ Count(cycle.sent[propertyHandlers[m.property]],
                           UpdateMsg("__thing__", m.property, m.value))
                        >= Count(cycle.batch, m)

(* A cycle has published, and its batch held an external-origin Update     *)
(* after a component's report.                                             *)
C12_Witness ==
    /\ tpc = "wait"
    /\ PublishedInCycle
    /\ \E i, j \in 1..Len(cycle.batch) :
          i < j /\ IsReport(cycle.batch[i]) /\ IsExternal(cycle.batch[j])

(* The pairs of rv owned by component c, as mailbox messages, in order.    *)
RECURSIVE PairsFor(_, _)
PairsFor(c, rv) ==
    IF rv = << >> THEN << >>
    ELSE LET k == rv[1][1] IN
         (IF k \in DOMAIN propertyHandlers /\ propertyHandlers[k] = c
          THEN <<UpdateMsg("__thing__", k, rv[1][2])>> ELSE << >>)
            \o PairsFor(c, Tail(rv))

(* What processing msgs from the start of a cycle amounts to: the reports  *)
(* accumulated, the maps onChange is to be called with, and the messages   *)
(* due on each mailbox.                                                    *)
RECURSIVE Replay(_)
Replay(msgs) ==
    IF msgs = << >>
    THEN [upd |-> << >>, calls |-> << >>, sent |-> [c \in Comps |-> << >>]]
    ELSE LET prev == Replay(SubSeq(msgs, 1, Len(msgs) - 1))
             m == msgs[Len(msgs)]
         IN  IF IsExternal(m)
             THEN [prev EXCEPT !.sent[propertyHandlers[m.property]] = Append(@, m)]
             ELSE LET upd == [p \in DOMAIN prev.upd \cup {m.property} |->
                                 IF p = m.property THEN m.value ELSE prev.upd[p]]
                  IN  [upd |-> upd,
                       calls |-> Append(prev.calls, upd),
                       sent |-> [c \in Comps |->
                                   prev.sent[c] \o PairsFor(c, onChange(hook, upd).rv)]]

(* C13: in a cycle, each mailbox has received, in order, every pair that   *)
(* onChange returned for the reports processed so far (next to the         *)
(* external updates routed to it), and nothing was published meanwhile.    *)
C13_HookPairsDispatchedInCycle ==
    InCycle =>
        /\ cycle.sent = Replay(Processed).sent
        /\ tpc = "process" => ~PublishedInCycle

(* With the documented onChange, a report powerState = OFF was processed   *)
(* and the cycle put powerState = ON, input = CD on the preamp's mailbox   *)
(* and then published.                                                     *)
C13_Witness ==
    /\ hook = "docExample"
    /\ tpc = "wait"
    /\ PublishedInCycle
    /\ cycle.sent["preamp"] = <<UpdateMsg("__thing__", "powerState", "ON"),
                                 UpdateMsg("__thing__", "input", "CD")>>

(* C14: in a cycle, onChange was called once for each component report     *)
(* processed so far, in order, each time with the map of the reports       *)
(* accumulated up to it, and not for an external-origin Update.            *)
C14_HookCalledOncePerReport ==
    InCycle => cycle.calls = Replay(Processed).calls

(* A cycle has processed two reports with an external Update between them: *)
(* onChange was called twice, the second time with both reports.           *)
C14_Witness ==
    /\ tpc = "wait"
    /\ Len(cycle.batch) = 3
    /\ IsReport(cycle.batch[1]) /\ IsExternal(cycle.batch[2]) /\ IsReport(cycle.batch[3])
    /\ Len(cycle.calls) = 2
    /\ Cardinality(DOMAIN cycle.calls[2]) = 2

(* C15: an external-origin Update goes to the mailbox of the property's     *)
(* owner and not into updatedProperties, which holds the component reports *)
(* only; a cycle that publishes has processed a component report.          *)
C15_ExternalRoutedNotAccumulated ==
    InCycle =>
        /\ DOMAIN updatedProperties = {m.property : m \in {x \in Range(Processed) : IsReport(x)}}
        /\ \A p \in DOMAIN updatedProperties :
              \E i \in 1..Len(Processed) :
                  /\ IsReport(Processed[i]) /\ Processed[i].property = p
                  /\ Processed[i].value = updatedProperties[p]
                  /\ \A j \in (i + 1)..Len(Processed) :
                        ~(IsReport(Processed[j]) /\ Processed[j].property = p)
        /\ \A i \in 1..Len(Processed) :
              IsExternal(Processed[i]) =>
                  Count(cycle.sent[propertyHandlers[Processed[i].property]], Processed[i])
                      >= Count(Processed, Processed[i])
        /\ PublishedInCycle => \E i \in 1..Len(cycle.batch) : IsReport(cycle.batch[i])

(* A cycle whose batch held external-origin Updates only has ended: the     *)
(* projector's mailbox got the request, nothing was accumulated, nothing    *)
(* published.                                                              *)
C15_Witness ==
    /\ tpc = "wait"
    /\ cycle.batch # << >>
    /\ \A i \in 1..Len(cycle.batch) : IsExternal(cycle.batch[i])
    /\ cycle.sent["proj"] # << >>
    /\ updatedProperties = << >>
    /\ ~PublishedInCycle

(* C16: a cycle publishes at most once, and not at all when nothing was    *)
(* accumulated or every accumulated value equals the shadow's.             *)
C16_AtMostOnePublishPerCycle ==
    /\ Len(published) <= cycle.pub + 1
    /\ (tpc = "wait" /\ \A p \in DOMAIN updatedProperties :
                            updatedProperties[p] = localShadow[p])
          => ~PublishedInCycle

(* A cycle that accumulated powerState = OFF, the shadow's value, has       *)
(* ended without a publish.                                                *)
C16_Witness ==
    /\ tpc = "wait"
    /\ cycle.batch # << >>
    /\ updatedProperties # << >>
    /\ \A p \in DOMAIN updatedProperties : updatedProperties[p] = localShadow[p]
    /\ ~PublishedInCycle

(* The threads of component c that are inside a stream read.               *)
Readers(c) ==
    (IF rpc[c] = "reading" THEN 1 ELSE 0) + (IF wpc[c] = "inline" THEN 1 ELSE 0)

(* C17: at most one thread of a component is inside a stream read, and the *)
(* thread that is holds the component's lock.                              *)
C17_OneReaderUnderLock ==
    \A c \in Comps :
        /\ Readers(c) <= 1
        /\ rpc[c] = "reading" => readlock[c] = "read"
        /\ wpc[c] = "inline" => readlock[c] = "write"

(* A synchronous component's write loop is in its inline read while the    *)
(* read loop of an asynchronous component is in a read of its own stream.  *)
C17_Witness ==
    \E c, d \in Comps :
        /\ wpc[c] = "inline" /\ readlock[c] = "write"
        /\ rpc[d] = "reading" /\ readlock[d] = "read"

(* C18: a synchronous component has no read loop; each of its writes is    *)
(* followed by the inline read, before which the write loop takes no       *)
(* message and writes nothing more; a line is consumed by the inline read  *)
(* only, and is decoded into the cache and the event queue in that step.   *)
C18_SyncRepliesReadInline ==
    [][\A c \in Comps :
          synchronous[c] =>
              /\ rpc[c] = "none"
              /\ Written(c) # {} => Cardinality(Written(c)) = 1 /\ wpc'[c] = "inline"
              /\ wpc[c] = "inline" => ~Dequeues(c) /\ Written(c) = {}
              /\ ConsumesLine(c) =>
                    LET r == processComponentResponse(c, ClassOf(c), properties[c], Head(rx[c]))
                    IN  /\ wpc[c] = "inline"
                        /\ properties'[c] = r.cache
                        /\ eventQueue' = eventQueue \o r.events]_vars

(* C19: when the wait on the mailbox times out, queryStatus() is evaluated *)
(* on the cache of that moment ("P1?" for a preamp cached as ON, "P1P?"    *)
(* otherwise; "PWR?", "SOURCE?" for a projector cached as ON), and its     *)
(* commands are written one by one in list order.                          *)
C19_TimeoutQueriesInOrder ==
    [][\A c \in Comps :
          /\ (wpc[c] = "get" /\ componentQueue[c] = << >> /\ wpc'[c] # "get") =>
                /\ wq'[c] = queryStatus(ClassOf(c), properties[c])
                /\ c = "preamp" =>
                      wq'[c] = IF properties[c]["powerState"] = "ON"
                               THEN << <<"P", "1", "?", "\n">> >>
                               ELSE << <<"P", "1", "P", "?", "\n">> >>
                /\ (c = "proj" /\ properties[c]["projPowerState"] = "ON") =>
                      wq'[c] = << <<"P", "W", "R", "?", "\r">>,
                                  <<"S", "O", "U", "R", "C", "E", "?", "\r">> >>
          /\ (wpc[c] = "wq" /\ wq'[c] # wq[c]) =>
                /\ wq'[c] = Tail(wq[c])
                /\ fault[c] # "write" =>
                      tx'[c] = Append(tx[c], [kind |-> "query", text |-> Head(wq[c])])
          /\ wq[c] # << >> => wpc[c] \in {"wq", "inline", "ioerror"}
          /\ \A i \in Written(c) :
                tx'[c][i].kind = "query" => wpc[c] = "wq" /\ tx'[c][i].text = Head(wq[c])]_vars

(* The preamp's mailbox wait timed out twice: before "P1P1" was decoded    *)
(* the power query was written, after it the full status query.            *)
C19_Witness ==
    /\ properties["preamp"]["powerState"] = "ON"
    /\ tx["preamp"] = <<[kind |-> "query", text |-> <<"P", "1", "P", "?", "\n">>],
                        [kind |-> "query", text |-> <<"P", "1", "?", "\n">>]>>

(* C20: once exit() was called on a component, its write loop eventually   *)
(* ends.                                                                   *)
C20_ExitEndsWriteLoop ==
    \A c \in Comps : exitFlag[c] ~> (wpc[c] \in {"done", "crashed", "AttributeError", "ioerror"})

(* exit() was called on the projector while its write loop waited in the   *)
(* readiness gate: the loop has ended, the EXIT message still in the       *)
(* mailbox.                                                                *)
C20_Witness ==
    /\ exitFlag["proj"]
    /\ wpc["proj"] = "done"
    /\ ~lastReady["proj"]
    /\ ~ready(ClassOf("proj"), properties["proj"])
    /\ componentQueue["proj"] # << >>

(* C21: once exit() was called on an asynchronous component, the read that *)
(* returns next is the read loop's last: the loop ends with it, starts no  *)
(* further read and consumes no further line, so at most one line is read  *)
(* and decoded after exit(); and the loop does end.                        *)
C21_ReadLoopEndsAfterExit ==
    /\ [][\A c \in Comps :
             ~synchronous[c] =>
                 /\ (exitFlag[c] /\ rpc[c] = "reading" /\ (DecodesLine(c) \/ rpc'[c] # rpc[c]))
                        => rpc'[c] \in {"done", "ioerror"}
                 /\ rpc[c] # "reading" => rpc'[c] = rpc[c] /\ ~ConsumesLine(c)]_vars
    /\ \A c \in Comps :
          (exitFlag[c] /\ ~synchronous[c]) ~> (rpc[c] \in {"done", "ioerror"})

(* exit() was called on the preamp while "P1P1" and "P1P0" waited on its   *)
(* stream: the read in flight returned and decoded "P1P1", the read loop   *)
(* ended, and "P1P0" is left unread.                                       *)
C21_Witness ==
    /\ exitFlag["preamp"]
    /\ rpc["preamp"] = "done"
    /\ lastDecode["preamp"].val = <<"P", "1", "P", "1">>
    /\ lastDecode["preamp"].exiting
    /\ rx["preamp"] = << <<"P", "1", "P", "0">> >>

(* a is b with some elements left out, the others in the same order.       *)
RECURSIVE IsSubseq(_, _)
IsSubseq(a, b) ==
    IF a = << >> THEN TRUE
    ELSE IF b = << >> THEN FALSE
    ELSE IF Head(a) = Head(b) THEN IsSubseq(Tail(a), Tail(b))
    ELSE IsSubseq(a, Tail(b))

IsPrefix(a, b) == Len(a) <= Len(b) /\ SubSeq(b, 1, Len(a)) = a

(* The update commands written to c's stream so far, in order.             *)
WrittenUpdates(c) ==
    LET upd == SelectSeq(tx[c], LAMBDA e : e.kind = "update")
    IN  [i \in 1..Len(upd) |-> upd[i].text]

(* The commands c's write loop writes for the updates of msgs that are     *)
(* (or, on the Thing's side, will be routed) in c's mailbox, in order.     *)
RECURSIVE CommandsFor(_, _, _)
CommandsFor(c, msgs, routed) ==
    IF msgs = << >> THEN << >>
    ELSE LET m == Head(msgs)
             mine == /\ m.action = "UPDATE"
                     /\ fromThing(m)
                     /\ routed \/ (m.property \in DOMAIN propertyHandlers
                                    /\ propertyHandlers[m.property] = c)
             e == encodeUpdate(ClassOf(c), m)
         IN  (IF mine /\ e.do = "write" THEN <<e.text>> ELSE << >>)
                 \o CommandsFor(c, Tail(msgs), routed)

(* The update commands of component c from the device back to the shadow   *)
(* service: those written, then those of the updates waiting in the        *)
(* mailbox, in the Thing's batch and on the event queue.                   *)
Pipeline(c) ==
    WrittenUpdates(c) \o CommandsFor(c, componentQueue[c], TRUE)
        \o CommandsFor(c, messages, FALSE) \o CommandsFor(c, eventQueue, FALSE)

(* The pipeline after the update at the head of c's mailbox was lost.      *)
PipelineLessHead(c) ==
    LET n == Len(WrittenUpdates(c)) IN
    SubSeq(Pipeline(c), 1, n) \o SubSeq(Pipeline(c), n + 2, Len(Pipeline(c)))

(* C22: the updates for one component keep their order from the Thing's    *)
(* event queue to the device. No step makes an update overtake another: a  *)
(* delta joins at the end, routing, the mailbox and the write loop move    *)
(* the updates along in order (a cascading instruction of onChange may     *)
(* join at the mailbox), and an update leaves the order only when its      *)
(* write fails on a stream I/O error.                                      *)
C22_ExternalUpdatesKeepOrder ==
    [][\A c \in Comps :
          /\ \/ IsSubseq(Pipeline(c), Pipeline(c)')
             \/ /\ wpc'[c] = "ioerror"
                /\ Dequeues(c)
                /\ Pipeline(c)' = PipelineLessHead(c)
          /\ Len(eventQueue') > Len(eventQueue) => IsPrefix(Pipeline(c), Pipeline(c)')]_vars

(* Deltas for powerState = ON and then powerState = OFF were routed to the *)
(* preamp, which wrote "P1P1" and then "P1P0".                             *)
C22_Witness ==
    /\ tx["preamp"] = <<[kind |-> "update", text |-> <<"P", "1", "P", "1">>],
                        [kind |-> "update", text |-> <<"P", "1", "P", "0">>]>>
    /\ componentQueue["preamp"] = << >>
    /\ lastMsg["preamp"] = UpdateMsg("__thing__", "powerState", "OFF")

(* What group i of a matched line is for component c: the handler's result *)
(* on property name i and group i's text, and whether it is a new value.   *)
GroupResult(c, ret, i) == DecodeHandler(ret.method, ret.props[i], ret.groups[i])
GroupChanges(c, ret, i) ==
    GroupResult(c, ret, i).exc = "none"
        /\ GroupResult(c, ret, i).val # properties[c][ret.props[i]]

(* C23: a line that matches a rule bound to N property names gives N       *)
(* groups, each handled by itself and in order: the events pushed are      *)
(* those of the groups whose handler returned a new value, in group order, *)
(* and each property is set to its group's value or left as it was,        *)
(* whatever happened to the other groups.                                  *)
C23_GroupsHandledIndependently ==
    [][\A c \in Comps :
          DecodesLine(c) =>
              LET ret == componentToProperty(ClassOf(c), Head(rx[c])) IN
              ret.found =>
                  LET n == Len(ret.props)
                      changed == SelectSeq([i \in 1..n |-> i],
                                           LAMBDA i : GroupChanges(c, ret, i))
                  IN  /\ Len(ret.groups) = n
                      /\ eventQueue' = eventQueue \o
                            [k \in 1..Len(changed) |->
                                UpdateMsg(c, ret.props[changed[k]],
                                          GroupResult(c, ret, changed[k]).val)]
                      /\ \A i \in 1..n :
                            properties'[c][ret.props[i]] =
                                IF GroupChanges(c, ret, i) THEN GroupResult(c, ret, i).val
                                ELSE properties[c][ret.props[i]]
                      /\ ret.method = "avmcombinedResponse" =>
                            /\ ret.props = <<"input", "volume", "muted">>
                            /\ ret.groups[1] = SubSeq(Head(rx[c]), 4, 4)
                            /\ ret.groups[2] = SubSeq(Head(rx[c]), 6, 10)
                            /\ ret.groups[3] = SubSeq(Head(rx[c]), 12, 12)]_vars

(* The preamp decoded "P1S5V-35.0M0D0E0" and then "P1S5V-35.0M1D0E0": in   *)
(* the second line the input is unchanged and the volume handler fails,    *)
(* and the update for muted is pushed all the same.                        *)
C23_Witness ==
    /\ lastDecode["preamp"] =
          [val |-> <<"P", "1", "S", "5", "V", "-", "3", "5", ".", "0", "M", "1", "D", "0",
                     "E", "0">>,
           events |-> <<UpdateMsg("preamp", "muted", "True")>>,
           exiting |-> FALSE]
    /\ properties["preamp"]["input"] = "DVD"
    /\ properties["preamp"]["volume"] = "UNKNOWN"
    /\ properties["preamp"]["muted"] = "True"

(* The rules a class declares itself that match a text in full, and those  *)
(* of its ancestors, as (position in the ancestor list, rule number).      *)
RuleMatches(cls, k, text) ==
    MatchAlts(c2pRules(cls)[k].pat, 1, text, Len(c2pRules(cls)[k].props)).ok
OwnMatches(cls, text) == {k \in DOMAIN c2pRules(cls) : RuleMatches(cls, k, text)}
Ancestors(cls) == IF cls = "derivedPreamp" THEN <<"preampComponent">> ELSE << >>
AncestorMatches(cls, text) ==
    {lk \in (DOMAIN Ancestors(cls)) \X (1..5) :
        /\ lk[2] \in DOMAIN c2pRules(Ancestors(cls)[lk[1]])
        /\ RuleMatches(Ancestors(cls)[lk[1]], lk[2], text)}
Least(S) == CHOOSE x \in S : \A y \in S : x <= y
IsRule(ret, rule) == ret.found /\ ret.method = rule.method /\ ret.props = rule.props

(* C24: _componentToProperty answers with one rule: the first matching     *)
(* rule the class declares itself if there is one, whatever the ancestors  *)
(* declare; otherwise the first matching rule of the nearest ancestor;     *)
(* otherwise nothing.                                                      *)
C24_SubclassRulesFirst ==
    call.fn = "_componentToProperty" =>
        LET own == OwnMatches(call.cls, call.text)
            anc == AncestorMatches(call.cls, call.text)
        IN  /\ own # {} => IsRule(call.ret, c2pRules(call.cls)[Least(own)])
            /\ own = {} /\ anc # {} =>
                  LET l == Least({lk[1] : lk \in anc})
                      k == Least({lk[2] : lk \in {x \in anc : x[1] = l}})
                  IN  IsRule(call.ret, c2pRules(Ancestors(call.cls)[l])[k])
            /\ own = {} /\ anc = {} => ~call.ret.found

(* The derived class was asked for "P1P1", which its own rule and the      *)
(* inherited rule for powerState both match: the answer is its own rule.   *)
C24_Witness ==
    /\ call.fn = "_componentToProperty" /\ call.cls = "derivedPreamp"
    /\ call.text = <<"P", "1", "P", "1">>
    /\ OwnMatches(call.cls, call.text) = {1}
    /\ AncestorMatches(call.cls, call.text) = {<<1, 1>>}
    /\ call.ret.found /\ call.ret.method = "derivedToPowerState"
    /\ call.ret.groups = << <<"1">> >>

(* A pattern covers a text when one of its alternatives has the text's     *)
(* length and every character of the text is in the class at its place.    *)
RECURSIVE Offset(_, _)
Offset(elems, k) == IF k = 1 THEN 0 ELSE Offset(elems, k - 1) + elems[k - 1].n
Covers(pat, text) ==
    \E a \in DOMAIN pat :
        /\ Offset(pat[a], Len(pat[a]) + 1) = Len(text)
        /\ \A k \in DOMAIN pat[a] : \A j \in 1..pat[a][k].n :
              text[Offset(pat[a], k) + j] \in pat[a][k].s
SomeRuleCovers(cls, text) ==
    \E k \in Range(mro(cls)) : \E i \in DOMAIN c2pRules(k) : Covers(c2pRules(k)[i].pat, text)

(* C25: _componentToProperty finds a rule exactly when some rule's pattern *)
(* covers the whole text, and the read loop, on a line that no pattern     *)
(* covers, changes no cached property and pushes no event.                 *)
C25_OnlyWholeLineMatchesDecode ==
    /\ [](call.fn = "_componentToProperty" =>
              (call.ret.found <=> SomeRuleCovers(call.cls, call.text)))
    /\ [][\A c \in Comps :
             DecodesLine(c) /\ ~SomeRuleCovers(ClassOf(c), Head(rx[c])) =>
                 /\ properties' = properties
                 /\ eventQueue' = eventQueue]_vars

(* The preamp is known to be ON and then reads "P1P10", of which the       *)
(* power pattern matches the first four characters: nothing is pushed and  *)
(* the power state is still ON.                                            *)
C25_Witness ==
    /\ lastDecode["preamp"] = [val |-> <<"P", "1", "P", "1", "0">>, events |-> << >>,
                               exiting |-> FALSE]
    /\ ~SomeRuleCovers("preampComponent", lastDecode["preamp"].val)
    /\ properties["preamp"]["powerState"] = "ON"
    /\ Len(eventQueue) = 1

(* C26: _propertyToComponent answers with the one rule declared under      *)
(* exactly the given name: that of the class itself if it declares one,    *)
(* otherwise that of the nearest ancestor declaring one, otherwise         *)
(* nothing.                                                                *)
C26_PropertyLookupExactDerivedFirst ==
    call.fn = "_propertyToComponent" =>
        LET anc == {l \in DOMAIN Ancestors(call.cls) :
                       call.property \in DOMAIN p2cRules(Ancestors(call.cls)[l])}
        IN  IF call.property \in DOMAIN p2cRules(call.cls)
            THEN call.ret = [found |-> TRUE, cmd |-> p2cRules(call.cls)[call.property]]
            ELSE IF anc # {}
            THEN call.ret = [found |-> TRUE,
                             cmd |-> p2cRules(Ancestors(call.cls)[Least(anc)])[call.property]]
            ELSE call.ret = [found |-> FALSE]

(* The derived class was asked for powerState, for which it and its        *)
(* ancestor both declare a command: the answer is its own.                 *)
C26_Witness ==
    /\ call.fn = "_propertyToComponent" /\ call.cls = "derivedPreamp"
    /\ call.property = "powerState"
    /\ "powerState" \in DOMAIN p2cRules("preampComponent")
    /\ call.ret.found /\ call.ret.cmd.method = "derivedPowerStateToAVM"
    /\ call.ret.cmd.pre = <<"Z", "2", "P">>

(* The property names in use, and whether a class or one of its ancestors  *)
(* names a property in a rule of either direction.                         *)
PropertyNames ==
    CallProperties \cup {"volume", "muted", "projPowerState"}
Lineage(cls) == {cls} \cup Range(Ancestors(cls))
ReadRuleNames(cls, p) ==
    \E k \in Lineage(cls) : \E i \in DOMAIN c2pRules(k) :
        \E j \in DOMAIN c2pRules(k)[i].props : c2pRules(k)[i].props[j] = p
WriteRuleNames(cls, p) == \E k \in Lineage(cls) : p \in DOMAIN p2cRules(k)

(* C28: the cache that _initializeProperties builds holds exactly the      *)
(* properties named by a rule, of either direction, of the class or an     *)
(* ancestor, each with value UNKNOWN; a property named in one direction    *)
(* only is in it like the others. The components start with that cache.   *)
C28_InitialCacheAllUnknown ==
    /\ call.fn = "_initializeProperties" =>
          /\ DOMAIN call.ret \subseteq PropertyNames
          /\ \A p \in PropertyNames :
                IF ReadRuleNames(call.cls, p) \/ WriteRuleNames(call.cls, p)
                THEN p \in DOMAIN call.ret /\ call.ret[p] = "UNKNOWN"
                ELSE p \notin DOMAIN call.ret
    /\ inputs = 0 =>
          \A c \in Comps : \A p \in PropertyNames :
              IF ReadRuleNames(ClassOf(c), p) \/ WriteRuleNames(ClassOf(c), p)
              THEN p \in DOMAIN properties[c] /\ properties[c][p] = "UNKNOWN"
              ELSE p \notin DOMAIN properties[c]

(* The cache of the derived class: the four inherited properties, display  *)
(* which is only read, and reset which is only written.                    *)
C28_Witness ==
    /\ call.fn = "_initializeProperties" /\ call.cls = "derivedPreamp"
    /\ DOMAIN call.ret = {"powerState", "input", "volume", "muted", "display", "reset"}
    /\ ReadRuleNames(call.cls, "display") /\ ~WriteRuleNames(call.cls, "display")
    /\ WriteRuleNames(call.cls, "reset") /\ ~ReadRuleNames(call.cls, "reset")
    /\ call.ret["display"] = "UNKNOWN" /\ call.ret["reset"] = "UNKNOWN"

(* C27, as stated: the stream of a component is never closed twice, and it *)
(* has been closed once the component is finalized.                        *)
C27_StreamClosedOnce ==
    \A c \in Comps :
        /\ closes[c] <= 1
        /\ ~alive[c] => closes[c] = 1

(* The component that registered a property last, and the pairs that the   *)
(* message at the head of the batch makes the Thing send to components:    *)
(* the pair of an external update, the pairs onChange returns for a report.*)
Declares(c, p) == p \in DOMAIN properties[c]
LastRegistered(p) ==
    ComponentList[CHOOSE i \in DOMAIN ComponentList :
                     /\ Declares(ComponentList[i], p)
                     /\ \A j \in DOMAIN ComponentList :
                           Declares(ComponentList[j], p) => j <= i]
PairsToRoute ==
    LET m == Head(messages) IN
    IF m.action # "UPDATE" THEN << >>
    ELSE IF m.source = "__thing__" THEN << <<m.property, m.value>> >>
    ELSE onChange(hook, (m.property :> m.value) @@ updatedProperties).rv
PairsOwnedBy(c) == SelectSeq(PairsToRoute, LAMBDA kv : LastRegistered(kv[1]) = c)

(* C29: every property that some component declares has a handler and a   *)
(* shadow entry, the handler being the component registered last among     *)
(* those that declare it; and when the Thing processes a message, each     *)
(* component's mailbox receives exactly the updates for the properties it  *)
(* registered last, in order.                                              *)
C29_LastRegisteredOwns ==
    /\ [](/\ DOMAIN propertyHandlers = UNION {DOMAIN properties[c] : c \in Comps}
          /\ DOMAIN localShadow = DOMAIN propertyHandlers
          /\ \A p \in DOMAIN propertyHandlers : propertyHandlers[p] = LastRegistered(p))
    /\ [][(tpc = "process" /\ messages # << >> /\ messages' # messages) =>
             \A c \in Comps :
                 componentQueue'[c] = componentQueue[c] \o
                     [k \in 1..Len(PairsOwnedBy(c)) |->
                         UpdateMsg("__thing__", PairsOwnedBy(c)[k][1], PairsOwnedBy(c)[k][2])]]_vars

(* Both components declare powerState and "proj" was registered last. The  *)
(* first one reported OFF; the cascade (powerState ON, input CD) and an    *)
(* external powerState OFF were all written by the last one, and the       *)
(* first one was sent nothing.                                             *)
C29_Witness ==
    /\ Declares("preamp", "powerState") /\ Declares("proj", "powerState")
    /\ lastDecode["preamp"].val = <<"P", "1", "P", "0">>
    /\ lastDecode["proj"].val = << >>
    /\ SelectSeq(tx["proj"], LAMBDA w : w.kind = "update") =
          <<[kind |-> "update", text |-> <<"P", "1", "P", "1">>],
            [kind |-> "update", text |-> <<"P", "1", "S", "0">>],
            [kind |-> "update", text |-> <<"P", "1", "P", "0">>]>>
    /\ SelectSeq(tx["preamp"], LAMBDA w : w.kind = "update") = << >>
    /\ componentQueue["preamp"] = << >>

(* In the current cycle the hook was called with powerState OFF and        *)
(* answered with (powerState, ON); the device's "ON" has been decoded and  *)
(* waits on the event queue.                                               *)
HookAnsweredOn ==
    \E i \in DOMAIN cycle.calls :
        /\ Get(cycle.calls[i], "powerState") = "OFF"
        /\ \E j \in DOMAIN onChange(hook, cycle.calls[i]).rv :
              onChange(hook, cycle.calls[i]).rv[j] = <<"powerState", "ON">>
AcknowledgedOn ==
    \E k \in DOMAIN eventQueue : eventQueue[k] = UpdateMsg("preamp", "powerState", "ON")

(* C30, as stated: once the hook has answered a report of powerState OFF   *)
(* with (powerState, ON) and the device has acknowledged ON, the state     *)
(* published to the shadow service eventually reports powerState ON.       *)
C30_CascadeEventuallyPublished ==
    (HookAnsweredOn /\ AcknowledgedOn) ~> (LastPublished("powerState") = "ON")

(* The values that the preamp's handlers accept for its properties that    *)
(* are written and reported in the same form.                              *)
ValidValues(property) ==
    CASE property = "powerState" -> {"ON", "OFF"}
      [] property = "input" -> {"CD", "DVD", "AUX"}
      [] property = "muted" -> {"True", "False"}
      [] OTHER -> {}

(* C31: for the preamp's powerState (and its input and muted), encoding a  *)
(* valid value to its command and decoding the command's text as a device  *)
(* line gives that one property with the value that was encoded.           *)
C31_RoundTripSymmetric ==
    (call.fn = "roundTrip" /\ call.cls = "preampComponent"
        /\ call.ret.value \in ValidValues(call.property)) =>
            /\ call.ret.do = "write"
            /\ call.ret.pairs = << <<call.property, Ok(call.ret.value)>> >>

(* powerState OFF was encoded as "P1P0", which decodes to powerState OFF.  *)
C31_Witness ==
    /\ call.fn = "roundTrip" /\ call.cls = "preampComponent"
    /\ call.property = "powerState" /\ call.ret.value = "OFF"
    /\ call.text = <<"P", "1", "P", "0">>
    /\ call.ret.pairs = << <<"powerState", Ok("OFF")>> >>

(* Where a write loop takes no further message: its thread has ended, or   *)
(* it is in the inline read that ends it.                                  *)
WriteLoopEnding(c) == wpc[c] \in {"done", "crashed", "AttributeError", "ioerror", "inline"}

(* C32: a message that the write loop takes once exit() has set the flag   *)
(* is its last: the loop ends with it, takes no message afterwards and     *)
(* writes nothing more once it has ended, so the updates still in the      *)
(* mailbox stay there.                                                     *)
C32_OneDequeueAfterExit ==
    [][\A c \in Comps :
          /\ (exitFlag[c] /\ Dequeues(c)) =>
                /\ Len(componentQueue'[c]) = Len(componentQueue[c]) - 1
                /\ WriteLoopEnding(c)'
          /\ WriteLoopEnding(c) =>
                /\ ~Dequeues(c)
                /\ IsPrefix(componentQueue[c], componentQueue'[c])
                /\ tx'[c] = tx[c]
                /\ WriteLoopEnding(c)']_vars

(* The preamp's mailbox held updates for ON and OFF when exit() was        *)
(* called: the loop took and wrote the first, then ended; the second and   *)
(* the EXIT message are still in the mailbox.                              *)
C32_Witness ==
    /\ exitFlag["preamp"] /\ wpc["preamp"] = "done"
    /\ lastMsg["preamp"] = UpdateMsg("__thing__", "powerState", "ON")
    /\ componentQueue["preamp"] = <<UpdateMsg("__thing__", "powerState", "OFF"), ExitMsg>>
    /\ SelectSeq(tx["preamp"], LAMBDA w : w.kind = "update") =
          <<[kind |-> "update", text |-> <<"P", "1", "P", "1">>]>>

(* C33: when the Thing comes to an EXIT message its loop has returned:     *)
(* that step routes nothing and publishes nothing, and from then on the    *)
(* Thing takes no message of the batch or of the event queue, sends no     *)
(* update to a component and publishes nothing, whatever the batch had     *)
(* accumulated.                                                            *)
C33_ExitEndsThingAtOnce ==
    [][/\ (tpc = "process" /\ messages # << >> /\ messages' # messages
             /\ Head(messages).action = "EXIT") =>
                /\ tpc' = "done"
                /\ componentQueue' = componentQueue
                /\ published' = published
       /\ tpc = "done" =>
                /\ tpc' = "done"
                /\ messages' = messages
                /\ updatedProperties' = updatedProperties
                /\ published' = published /\ localShadow' = localShadow
                /\ IsPrefix(eventQueue, eventQueue')
                /\ \A c \in Comps :
                      Len(componentQueue'[c]) > Len(componentQueue[c]) =>
                          componentQueue'[c] = Append(componentQueue[c], ExitMsg)]_vars

(* The batch was a report of powerState ON, an EXIT, and a request for     *)
(* powerState OFF: the Thing has returned with the report accumulated and  *)
(* not published, and the request neither taken nor routed.                *)
C33_Witness ==
    /\ tpc = "done"
    /\ cycle.batch = <<UpdateMsg("preamp", "powerState", "ON"), ExitMsg,
                       UpdateMsg("__thing__", "powerState", "OFF")>>
    /\ messages = <<UpdateMsg("__thing__", "powerState", "OFF")>>
    /\ updatedProperties = ("powerState" :> "ON")
    /\ published = << >>
    /\ componentQueue["preamp"] = << >> /\ tx["preamp"] = << >>

(* C34: an Update put on a component's mailbox while ready() is false is   *)
(* not lost. A message leaves a mailbox only by being taken by the write   *)
(* loop, and a loop whose readiness gate returned false takes none: the    *)
(* mailbox keeps every message while the loop sleeps. Once the cache holds *)
(* a state for which ready() is true, the Update at the head of the        *)
(* mailbox is eventually dequeued and (when its handler accepts the value) *)
(* its command written, unless the device reports a not-ready state again. *)
ProjReady == ready(ClassOf("proj"), properties["proj"])
HeadWaits(u) == componentQueue["proj"] # << >> /\ Head(componentQueue["proj"]) = u
ProjUpdates ==
    {UpdateMsg("__thing__", "projPowerState", "ON"),
     UpdateMsg("__thing__", "projPowerState", "DIM")}
Done(u, n) ==
    LET e == encodeUpdate(ClassOf("proj"), u) IN
    IF e.do = "write"
    THEN /\ Len(WrittenUpdates("proj")) > n
         /\ WrittenUpdates("proj")[n + 1] = e.text
    ELSE lastMsg["proj"] = u /\ ~HeadWaits(u)

C34_QueuedUpdateNotLost ==
    /\ [][\A c \in Comps :
             /\ Dequeues(c) =>
                   /\ lastReady[c]
                   /\ componentQueue'[c] = Tail(componentQueue[c])
                   /\ lastMsg'[c] = Head(componentQueue[c])
             /\ wpc[c] = "sleep" => IsPrefix(componentQueue[c], componentQueue'[c])]_vars
    /\ \A u \in ProjUpdates : \A n \in 0..MaxInputs :
           (HeadWaits(u) /\ ProjReady /\ Len(WrittenUpdates("proj")) = n)
               ~> (Done(u, n) \/ ~ProjReady)

C34_Witness ==
    /\ lastMsg["proj"] = UpdateMsg("__thing__", "projPowerState", "ON")
    /\ properties["proj"]["projPowerState"] = "ON"
    /\ componentQueue["proj"] = << >>
    /\ Len(tx["proj"]) = 5
    /\ tx["proj"][2] = [kind |-> "query", text |-> <<"P", "W", "R", "?", "\r">>]
    /\ tx["proj"][3] = [kind |-> "query", text |-> <<"P", "W", "R", "?", "\r">>]
    /\ tx["proj"][4].kind = "query"
    /\ tx["proj"][5].kind = "update"
    /\ tx["proj"][5].text = encodeUpdate("projectorComponent", lastMsg["proj"]).text

(* C35: a component's stream lock is held only by a thread that is inside  *)
(* a stream read (the read loop's read, or the write-then-read of a        *)
(* synchronous write), and is free once that thread has left the read by   *)
(* whatever path: a line, a time-out, an I/O error, the end of the loop.   *)
(* The step that decodes a line and pushes its events starts from the      *)
(* read's return; it leaves the lock held only by a read loop that is      *)
(* inside its next read, whatever the handlers did. At most one thread of  *)
(* a component is ever inside a read, so none waits for the lock.          *)
LockScoped(c) ==
    /\ readlock[c] = "read" <=> rpc[c] = "reading"
    /\ readlock[c] = "write" <=> wpc[c] = "inline"
    /\ Readers(c) <= 1

C35_LockScopedToRead ==
    [][\A c \in Comps :
          /\ LockScoped(c)
          /\ LockScoped(c)'
          /\ (properties'[c] # properties[c] \/ lastDecode'[c] # lastDecode[c]) =>
                 /\ rpc[c] = "reading" \/ wpc[c] = "inline"
                 /\ readlock'[c] # "free" => (rpc'[c] = "reading" /\ ~exitFlag[c])
          /\ (rpc[c] = "reading" /\ rpc'[c] # "reading") => readlock'[c] = "free"
          /\ (wpc[c] = "inline" /\ wpc'[c] # "inline") => readlock'[c] = "free"]_vars

(* The preamp's read loop has decoded a combined response whose volume the *)
(* handler rejected and is inside its next read; the projector's read loop *)
(* has ended on an I/O error; the lock of the projector is free.           *)
C35_Witness ==
    /\ lastDecode["preamp"].val =
          <<"P", "1", "S", "5", "V", "-", "3", "5", ".", "0", "M", "1", "D", "0", "E", "0">>
    /\ DecodeHandler("avmcombinedResponse", "volume", <<"-", "3", "5", ".", "0">>).exc
          = "ValueError"
    /\ properties["preamp"]["volume"] = "UNKNOWN"
    /\ properties["preamp"]["muted"] = "True"
    /\ rpc["preamp"] = "reading" /\ readlock["preamp"] = "read"
    /\ rpc["proj"] = "ioerror" /\ readlock["proj"] = "free"

(* C36: a component's cache is written by one thread of that component     *)
(* only: a step that changes it is the read loop of an asynchronous         *)
(* component (or the inline read of a synchronous one) decoding a line of   *)
(* its own device; it is not a step of the Thing, and it changes nothing    *)
(* that belongs to another component, whose cache, flags, lock, loops and   *)
(* streams stay as they are. What the components share is the Thing's      *)
(* event queue, to which the step only appends events under its own name.   *)
Own(c) == <<properties[c], exitFlag[c], readlock[c], wpc[c], wq[c], rpc[c], rx[c], tx[c],
            lastDecode[c]>>

C36_CacheHasOneWriter ==
    [][\A c \in Comps :
          properties'[c] # properties[c] =>
              /\ IF synchronous[c] THEN wpc[c] = "inline" ELSE DecodesLine(c)
              /\ properties'[c] =
                    processComponentResponse(c, ClassOf(c), properties[c], Head(rx[c])).cache
              /\ \A d \in Comps \ {c} :
                    Own(d)' = Own(d) /\ componentQueue'[d] = componentQueue[d]
              /\ UNCHANGED thingVars
              /\ IsPrefix(eventQueue, eventQueue')
              /\ \A k \in Pushed : eventQueue'[k].source = c]_vars

(* Two objects of the same class, each fed by its own device, hold          *)
(* different values of the same property.                                   *)
C36_Witness ==
    /\ classOf["preamp"] = classOf["proj"]
    /\ properties["preamp"]["powerState"] = "ON"
    /\ properties["proj"]["powerState"] = "OFF"
    /\ lastDecode["preamp"].val = <<"P", "1", "P", "1">>
    /\ lastDecode["proj"].val = <<"P", "1", "P", "0">>

(* C37: a component's cache changes, and an event under its name is        *)
(* pushed, only in a step that decodes a line of its device; the event     *)
(* carries the value the cache then holds. Putting an Update on a mailbox, *)
(* taking it from there and writing its command change no cache and push   *)
(* no event. The Thing accumulates only what components reported and        *)
(* publishes only what it accumulated, so a requested value is cached and  *)
(* published only after the device has reported it.                        *)
Routes(c) == Len(componentQueue'[c]) > Len(componentQueue[c])

C37_CacheChangesOnlyByDecoding ==
    [][/\ \A c \in Comps :
             /\ properties'[c] # properties[c] => ConsumesLine(c)
             /\ (Routes(c) \/ Dequeues(c) \/ Written(c) # {}) =>
                    /\ properties' = properties
                    /\ Pushed = {}
       /\ \A k \in Pushed :
             LET m == eventQueue'[k] IN
             IsReport(m) =>
                 /\ ConsumesLine(m.source)
                 /\ properties'[m.source][m.property] = m.value
                 /\ properties[m.source][m.property] # m.value
       /\ \A q \in DOMAIN updatedProperties' :
             (q \notin DOMAIN updatedProperties \/ updatedProperties'[q] # updatedProperties[q])
                 => /\ messages # << >>
                    /\ IsReport(Head(messages))
                    /\ Head(messages).property = q
                    /\ Head(messages).value = updatedProperties'[q]
       /\ Len(published') > Len(published) =>
             /\ Len(published') = Len(published) + 1
             /\ published'[Len(published')] = updatedProperties]_vars

(* The shadow service asked for the preamp's power to be ON; the request   *)
(* was routed, dequeued and its command written, and the device has not    *)
(* answered: the cache still holds UNKNOWN and nothing was published.      *)
C37_Witness ==
    /\ lastMsg["preamp"] = UpdateMsg("__thing__", "powerState", "ON")
    /\ WrittenUpdates("preamp") =
          <<encodeUpdate("preampComponent", lastMsg["preamp"]).text>>
    /\ componentQueue["preamp"] = << >>
    /\ properties["preamp"]["powerState"] = "UNKNOWN"
    /\ rx["preamp"] = << >>
    /\ eventQueue = << >>
    /\ tpc = "wait"
    /\ published = << >>

(* C38: a stream read returns the bytes received before the end-of-line    *)
(* marker, without the marker, or, when the inactivity time-out passes     *)
(* first, the bytes buffered until then; the read loop then does with a    *)
(* text returned on time-out exactly what it does with the same text       *)
(* received as a complete line, and decodes nothing when the text is       *)
(* empty.                                                                  *)
IsData(b) == b \notin {Nothing, Expired, Eol}
FirstEnd(reads) ==
    CHOOSE k \in 1..Len(reads) :
        /\ reads[k] \in {Eol, Expired}
        /\ \A j \in 1..(k - 1) : reads[j] \notin {Eol, Expired}
Received(reads) == SelectSeq(SubSeq(reads, 1, FirstEnd(reads) - 1), IsData)

C38_TimeoutTextDecodedLikeLine ==
    call.fn = "_readLoop" =>
        LET t == Received(call.text) IN
        /\ call.ret.read.returns
        /\ (\A i \in 1..Len(t) : t[i] # BadByte) =>
               /\ call.ret.read.exc = "none"
               /\ call.ret.read.val = t
               /\ t = << >> => call.ret.decode = NoDecode
               /\ t # << >> =>
                      call.ret.decode =
                          processComponentResponse("preamp", call.cls,
                                                   initializeProperties(call.cls), t)
        /\ call.ret = readLoopOnce(call.cls, t \o <<Eol>>)

(* test_preamp_query: the device sends P1P1 without an end-of-line marker; *)
(* after the time-out the text is returned and decoded to powerState ON.   *)
C38_Witness ==
    /\ call.fn = "_readLoop"
    /\ call.cls = "preampComponent"
    /\ call.text = <<"P", "1", "P", "1", Expired>>
    /\ call.ret.read.val = <<"P", "1", "P", "1">>
    /\ call.ret.decode.events = <<UpdateMsg("preamp", "powerState", "ON")>>
    /\ call.ret.decode.cache["powerState"] = "ON"

(* C39, as stated: absent Exit and errors, once the system is quiescent    *)
(* (every line the devices sent was read, the event queue is empty and the *)
(* Thing waits for the next message), the value last published for each   *)
(* property that its component has reported is the component's cached     *)
(* value.                                                                  *)
NoExitNoError ==
    /\ \A c \in Comps :
          /\ ~exitFlag[c]
          /\ fault[c] = "none"
          /\ wpc[c] \in {"get", "sleep", "wq", "inline"}
          /\ rpc[c] \in {"reading", "none"}
    /\ tpc \in {"wait", "process"}
    /\ \A i \in 1..Len(cycle.batch) : cycle.batch[i].action # "EXIT"
    /\ \A i \in 1..Len(eventQueue) : eventQueue[i].action # "EXIT"

Quiescent ==
    /\ tpc = "wait"
    /\ eventQueue = << >>
    /\ messages = << >>
    /\ \A c \in Comps : rx[c] = << >>

WasPublished(p) == \E i \in 1..Len(published) : p \in DOMAIN published[i]

====
